---- MODULE Spec2Model ----
(***************************************************************************)
(* Composition-note collection of old-world-builder: the collector         *)
(* getUnitCompNotes with its helpers extractName and addCompNote, the      *)
(* formatter generateCompNotesHTML and the army entry points               *)
(* getArmyCompNotes and getAllArmyCompNotes.                                *)
(*                                                                         *)
(* JavaScript values are tagged records: the field kind is compared        *)
(* first, val holds the payload.  A string is the sequence of its          *)
(* characters, an array the sequence of its elements, an object the        *)
(* function from its own property names to their values.                   *)
(***************************************************************************)
EXTENDS Integers, Sequences, FiniteSets, TLC

VARIABLES rulesMap, army, called, result,
          status, handlers, firestore, localStorage, state, loaded

vars == <<rulesMap, army, called, result,
          status, handlers, firestore, localStorage, state, loaded>>

\* the variables of the comp notes handler, and those of the application
\* around it: SyncButton, the remote documents, localStorage and the store
handlerVars == <<rulesMap, army, called, result>>

appVars == <<status, handlers, firestore, localStorage, state, loaded>>

-----------------------------------------------------------------------------
(* JavaScript values *)

Undef == [kind |-> "undefined"]

Null == [kind |-> "null"]

Bool(b) == [kind |-> "boolean", val |-> b]

Num(n) == [kind |-> "number", val |-> n]

Str(s) == [kind |-> "string", val |-> s]

Arr(a) == [kind |-> "array", val |-> a]

Obj(f) == [kind |-> "object", val |-> f]

EmptyObj == Obj(<<>>)

Range(s) == {s[i] : i \in DOMAIN s}

\* ToBoolean: undefined, null, false, 0 and "" are falsy
Truthy(v) ==
  CASE v.kind = "undefined" -> FALSE
    [] v.kind = "null" -> FALSE
    [] v.kind = "boolean" -> v.val
    [] v.kind = "number" -> v.val # 0
    [] v.kind = "string" -> Len(v.val) > 0
    [] OTHER -> TRUE

\* reading a property of undefined or null raises a TypeError
Nullish(v) == v.kind \in {"undefined", "null"}

\* v.p for a value that is not nullish (no property used here is inherited)
Get(v, p) ==
  IF v.kind = "object" /\ p \in DOMAIN v.val THEN v.val[p] ELSE Undef

IsArray(v) == v.kind = "array"

-----------------------------------------------------------------------------
(* Strings: sequences of characters *)

\* String.prototype.toLowerCase on one character of the alphabet used
LowerChar(c) ==
  CASE c = "A" -> "a"
    [] c = "B" -> "b"
    [] c = "C" -> "c"
    [] c = "M" -> "m"
    [] c = "N" -> "n"
    [] OTHER -> c

RECURSIVE toLowerCase(_)
toLowerCase(s) ==
  IF s = <<>> THEN <<>> ELSE <<LowerChar(Head(s))>> \o toLowerCase(Tail(s))

IsSpace(c) == c \in {" ", "\n", "\t"}

RECURSIVE TrimStart(_)
TrimStart(s) ==
  IF s # <<>> /\ IsSpace(Head(s)) THEN TrimStart(Tail(s)) ELSE s

RECURSIVE TrimEnd(_)
TrimEnd(s) ==
  IF s # <<>> /\ IsSpace(s[Len(s)]) THEN TrimEnd(SubSeq(s, 1, Len(s) - 1)) ELSE s

\* String.prototype.trim
trim(s) == TrimEnd(TrimStart(s))

IsBrace(c) == c \in {"{", "}"}

NotBrace(c) == ~IsBrace(c)

\* s.replace(/[{}]/g, '')
replaceBraces(s) == SelectSeq(s, NotBrace)

\* s.split(','): the segments between commas, at least one, possibly empty
RECURSIVE SplitFrom(_, _)
SplitFrom(s, cur) ==
  IF s = <<>> THEN <<cur>>
  ELSE IF Head(s) = "," THEN <<cur>> \o SplitFrom(Tail(s), <<>>)
  ELSE SplitFrom(Tail(s), Append(cur, Head(s)))

split(s) == SplitFrom(s, <<>>)

\* UTF-16 code unit of a character of the alphabet used
CharCode(c) ==
  CASE c = "\t" -> 9
    [] c = "\n" -> 10
    [] c = " " -> 32
    [] c = "\"" -> 34
    [] c = "," -> 44
    [] c = "-" -> 45
    [] c = "/" -> 47
    [] c = "0" -> 48
    [] c = "1" -> 49
    [] c = "2" -> 50
    [] c = "3" -> 51
    [] c = "4" -> 52
    [] c = "5" -> 53
    [] c = "6" -> 54
    [] c = "7" -> 55
    [] c = "8" -> 56
    [] c = "9" -> 57
    [] c = "<" -> 60
    [] c = "=" -> 61
    [] c = ">" -> 62
    [] c = "A" -> 65
    [] c = "B" -> 66
    [] c = "C" -> 67
    [] c = "M" -> 77
    [] c = "N" -> 78
    [] c = "a" -> 97
    [] c = "b" -> 98
    [] c = "c" -> 99
    [] c = "d" -> 100
    [] c = "e" -> 101
    [] c = "f" -> 102
    [] c = "h" -> 104
    [] c = "i" -> 105
    [] c = "l" -> 108
    [] c = "m" -> 109
    [] c = "n" -> 110
    [] c = "o" -> 111
    [] c = "p" -> 112
    [] c = "s" -> 115
    [] c = "t" -> 116
    [] c = "u" -> 117
    [] c = "v" -> 118
    [] c = "z" -> 122
    [] c = "{" -> 123
    [] c = "}" -> 125

\* a < b as the default sort comparison orders strings: by code units,
\* a proper prefix before the longer string
RECURSIVE StrLess(_, _)
StrLess(a, b) ==
  IF b = <<>> THEN FALSE
  ELSE IF a = <<>> THEN TRUE
  ELSE IF CharCode(Head(a)) # CharCode(Head(b))
       THEN CharCode(Head(a)) < CharCode(Head(b))
  ELSE StrLess(Tail(a), Tail(b))

DigitChar(n) ==
  CASE n = 0 -> "0" [] n = 1 -> "1" [] n = 2 -> "2" [] n = 3 -> "3"
    [] n = 4 -> "4" [] n = 5 -> "5" [] n = 6 -> "6" [] n = 7 -> "7"
    [] n = 8 -> "8" [] n = 9 -> "9"

\* Number.prototype.toString for a non-negative integer
RECURSIVE NumToString(_)
NumToString(n) ==
  IF n < 10 THEN <<DigitChar(n)>>
  ELSE NumToString(n \div 10) \o <<DigitChar(n % 10)>>

\* the string "undefined"
UndefinedText == <<"u", "n", "d", "e", "f", "i", "n", "e", "d">>

\* ToPropertyKey: the property name a value used as obj[value] selects
ToPropertyKey(v) ==
  CASE v.kind = "string" -> v.val
    [] v.kind = "number" -> NumToString(v.val)
    [] v.kind = "undefined" -> UndefinedText
    [] v.kind = "null" -> <<"n", "u", "l", "l">>

\* rulesMap[key]: undefined when the dictionary has no such key
Lookup(map, key) ==
  IF key \in DOMAIN map THEN map[key] ELSE Undef

-----------------------------------------------------------------------------
(* extractName *)

\* the plain name tried before the language-tagged ones
extractNamePlainFirst(item) ==
  IF ~Truthy(item) THEN Null
  ELSE IF item.kind = "string" THEN item
  ELSE IF item.kind \in {"object", "array"} THEN
    IF Truthy(Get(item, "name")) THEN Get(item, "name")
    ELSE IF Truthy(Get(item, "name_en")) THEN Get(item, "name_en")
    ELSE IF Truthy(Get(item, "name_cn")) THEN Get(item, "name_cn")
    ELSE IF Truthy(Get(item, "name_de")) THEN Get(item, "name_de")
    ELSE IF Truthy(Get(item, "name_es")) THEN Get(item, "name_es")
    ELSE IF Truthy(Get(item, "name_fr")) THEN Get(item, "name_fr")
    ELSE IF Truthy(Get(item, "name_it")) THEN Get(item, "name_it")
    ELSE Null
  ELSE Null

\* the language-tagged names alone, the plain name never tried
extractNameTaggedOnly(item) ==
  IF ~Truthy(item) THEN Null
  ELSE IF item.kind = "string" THEN item
  ELSE IF item.kind \in {"object", "array"} THEN
    IF Truthy(Get(item, "name_en")) THEN Get(item, "name_en")
    ELSE IF Truthy(Get(item, "name_cn")) THEN Get(item, "name_cn")
    ELSE IF Truthy(Get(item, "name_de")) THEN Get(item, "name_de")
    ELSE IF Truthy(Get(item, "name_es")) THEN Get(item, "name_es")
    ELSE IF Truthy(Get(item, "name_fr")) THEN Get(item, "name_fr")
    ELSE IF Truthy(Get(item, "name_it")) THEN Get(item, "name_it")
    ELSE Null
  ELSE Null

extractName(item) ==
  IF ~Truthy(item) THEN Null
  ELSE IF item.kind = "string" THEN item
  ELSE IF item.kind \in {"object", "array"} THEN
    IF Truthy(Get(item, "name_en")) THEN Get(item, "name_en")
    ELSE IF Truthy(Get(item, "name_cn")) THEN Get(item, "name_cn")
    ELSE IF Truthy(Get(item, "name_de")) THEN Get(item, "name_de")
    ELSE IF Truthy(Get(item, "name_es")) THEN Get(item, "name_es")
    ELSE IF Truthy(Get(item, "name_fr")) THEN Get(item, "name_fr")
    ELSE IF Truthy(Get(item, "name_it")) THEN Get(item, "name_it")
    ELSE IF Truthy(Get(item, "name")) THEN Get(item, "name")
    ELSE Null
  ELSE Null

-----------------------------------------------------------------------------
(* getUnitCompNotes.  The accumulator acc is the Set compNotes in insertion *)
(* order, or the record of a raised TypeError, which ends the call.         *)

\* the Set of the call before, kept in place of a new one
RetainedNotes ==
  IF "notes" \in DOMAIN result /\ ~result.threw THEN result
  ELSE [threw |-> FALSE, notes |-> <<>>]

NoNotes == [threw |-> FALSE, notes |-> <<>>]

Thrown == [threw |-> TRUE, notes |-> <<>>]

\* an array push in place of Set.prototype.add
SetAddNoCheck(notes, v) == Append(notes, v)

\* Set.prototype.add: a value already in the set keeps its first position
SetAdd(notes, v) ==
  IF v \in Range(notes) THEN notes ELSE Append(notes, v)

\* ruleName.toLowerCase().trim().replace(/[{}]/g, '')
normalizedName(s) == replaceBraces(trim(toLowerCase(s)))

\* ruleEntry && ruleEntry.compNote
HasCompNote(ruleEntry) ==
  Truthy(ruleEntry) /\ Truthy(Get(ruleEntry, "compNote"))

\* addCompNote putting the rule's own name where the entry has no note
addCompNoteOrName(acc, ruleName, map) ==
  IF acc.threw THEN acc
  ELSE IF ~Truthy(ruleName) THEN acc
  ELSE IF ruleName.kind # "string" THEN Thrown
  ELSE LET ruleEntry == Lookup(map, normalizedName(ruleName.val))
       IN IF HasCompNote(ruleEntry)
          THEN [acc EXCEPT !.notes = SetAdd(@, Get(ruleEntry, "compNote"))]
          ELSE IF Truthy(ruleEntry)
          THEN [acc EXCEPT !.notes = SetAdd(@, ruleName)]
          ELSE acc

addCompNote(acc, ruleName, map) ==
  IF acc.threw THEN acc
  ELSE IF ~Truthy(ruleName) THEN acc
  ELSE IF ruleName.kind # "string" THEN Thrown
  ELSE LET ruleEntry == Lookup(map, normalizedName(ruleName.val))
       IN IF HasCompNote(ruleEntry)
          THEN [acc EXCEPT !.notes = SetAdd(@, Get(ruleEntry, "compNote"))]
          ELSE acc

\* const x = extractName(e); if (x) addCompNote(x);
addNamed(acc, e, map) ==
  IF acc.threw THEN acc
  ELSE IF Truthy(extractName(e)) THEN addCompNote(acc, extractName(e), map)
  ELSE acc

\* arr.forEach(e => { const x = extractName(e); if (x) addCompNote(x); })
RECURSIVE forEachNamed(_, _, _)
forEachNamed(acc, elems, map) ==
  IF acc.threw \/ elems = <<>> THEN acc
  ELSE forEachNamed(addNamed(acc, Head(elems), map), Tail(elems), map)

\* rules.forEach(r => addCompNote(r)), r the trimmed segments
RECURSIVE forEachSegment(_, _, _)
forEachSegment(acc, segs, map) ==
  IF acc.threw \/ segs = <<>> THEN acc
  ELSE forEachSegment(addCompNote(acc, Str(trim(Head(segs))), map),
                      Tail(segs), map)

\* one addCompNote of the whole text, without the split
addWithoutSplit(acc, ruleName, map) == addCompNote(acc, ruleName, map)

\* ruleName.split(',').map(r => r.trim()), then addCompNote of each
splitAndAdd(acc, ruleName, map) ==
  IF acc.threw THEN acc
  ELSE IF ruleName.kind # "string" THEN Thrown
  ELSE forEachSegment(acc, split(ruleName.val), map)

\* const x = extractName(e); if (x) { split, addCompNote each }
addSplitNamed(acc, e, map) ==
  IF acc.threw THEN acc
  ELSE IF Truthy(extractName(e)) THEN splitAndAdd(acc, extractName(e), map)
  ELSE acc

RECURSIVE forEachRule(_, _, _)
forEachRule(acc, elems, map) ==
  IF acc.threw \/ elems = <<>> THEN acc
  ELSE forEachRule(addSplitNamed(acc, Head(elems), map), Tail(elems), map)

checkName(acc, unit, map) == addNamed(acc, unit, map)

checkMount(acc, unit, map) ==
  IF acc.threw THEN acc
  ELSE IF Nullish(unit) THEN Thrown
  ELSE IF Truthy(Get(unit, "mount")) THEN addNamed(acc, Get(unit, "mount"), map)
  ELSE acc

checkSpecialRules(acc, unit, map) ==
  IF acc.threw THEN acc
  ELSE LET specialRules == Get(unit, "specialRules")
       IN IF ~Truthy(specialRules) THEN acc
          ELSE IF IsArray(specialRules) THEN forEachRule(acc, specialRules.val, map)
          ELSE addSplitNamed(acc, specialRules, map)

\* the elements of unit.f split at the commas like those of specialRules
checkNamedArraySplit(acc, unit, f, map) ==
  IF acc.threw THEN acc
  ELSE IF Truthy(Get(unit, f)) /\ IsArray(Get(unit, f))
       THEN forEachRule(acc, Get(unit, f).val, map)
  ELSE acc

\* if (unit.f && Array.isArray(unit.f)) unit.f.forEach(...)
checkNamedArray(acc, unit, f, map) ==
  IF acc.threw THEN acc
  ELSE IF Truthy(Get(unit, f)) /\ IsArray(Get(unit, f))
       THEN forEachNamed(acc, Get(unit, f).val, map)
  ELSE acc

checkWeapons(acc, unit, map) == checkNamedArray(acc, unit, "weapons", map)

\* if (normalized && rulesMap[normalized]?.compNote) compNotes.add(...)
RECURSIVE forEachEquipmentSegment(_, _, _)
forEachEquipmentSegment(acc, segs, map) ==
  IF segs = <<>> THEN acc
  ELSE LET normalized == trim(toLowerCase(Head(segs)))
           ruleEntry == Lookup(map, normalized)
           hit == /\ Len(normalized) > 0
                  /\ ~Nullish(ruleEntry)
                  /\ Truthy(Get(ruleEntry, "compNote"))
       IN forEachEquipmentSegment(
            IF hit THEN [acc EXCEPT !.notes = SetAdd(@, Get(ruleEntry, "compNote"))]
            ELSE acc,
            Tail(segs), map)

\* the check of the active flag left out
NeverSkipped(item) == FALSE

\* !item.active
NotActive(item) == ~Truthy(Get(item, "active"))

equipmentItem(acc, item, map) ==
  IF acc.threw THEN acc
  ELSE IF Nullish(item) THEN Thrown
  ELSE IF NotActive(item) THEN acc
  ELSE LET name_en == Get(item, "name_en")
       IN IF Nullish(name_en) THEN forEachEquipmentSegment(acc, split(<<>>), map)
          ELSE IF name_en.kind # "string" THEN Thrown
          ELSE forEachEquipmentSegment(acc, split(replaceBraces(name_en.val)), map)

RECURSIVE forEachEquipment(_, _, _)
forEachEquipment(acc, elems, map) ==
  IF acc.threw \/ elems = <<>> THEN acc
  ELSE forEachEquipment(equipmentItem(acc, Head(elems), map), Tail(elems), map)

checkEquipment(acc, unit, map) ==
  IF acc.threw THEN acc
  ELSE LET equipment == Get(unit, "equipment")
       IN IF ~Truthy(equipment) THEN acc
          ELSE IF ~IsArray(equipment) THEN Thrown
          ELSE forEachEquipment(acc, equipment.val, map)

checkMagicItems(acc, unit, map) == checkNamedArray(acc, unit, "magicItems", map)

itemCategory(acc, cat, map) ==
  IF acc.threw THEN acc
  ELSE IF Nullish(cat) THEN Thrown
  ELSE IF Truthy(Get(cat, "selected")) /\ IsArray(Get(cat, "selected"))
       THEN forEachNamed(acc, Get(cat, "selected").val, map)
  ELSE acc

RECURSIVE forEachItemCategory(_, _, _)
forEachItemCategory(acc, elems, map) ==
  IF acc.threw \/ elems = <<>> THEN acc
  ELSE forEachItemCategory(itemCategory(acc, Head(elems), map), Tail(elems), map)

checkItems(acc, unit, map) ==
  IF acc.threw THEN acc
  ELSE IF Truthy(Get(unit, "items")) /\ IsArray(Get(unit, "items"))
       THEN forEachItemCategory(acc, Get(unit, "items").val, map)
  ELSE acc

checkArmor(acc, unit, map) ==
  IF acc.threw THEN acc
  ELSE LET armor == Get(unit, "armor")
       IN IF ~Truthy(armor) THEN acc
          ELSE IF IsArray(armor) THEN forEachNamed(acc, armor.val, map)
          ELSE addNamed(acc, armor, map)

checkOptions(acc, unit, map) == checkNamedArray(acc, unit, "options", map)

\* mount.name_en?.toLowerCase().trim().replace(/[{}]/g, ''), then
\* rulesMap[normalized]?.compNote
mountsItem(acc, mount, map) ==
  IF acc.threw THEN acc
  ELSE IF Nullish(mount) THEN Thrown
  ELSE IF NotActive(mount) THEN acc
  ELSE LET name_en == Get(mount, "name_en")
       IN IF ~Nullish(name_en) /\ name_en.kind # "string" THEN Thrown
          ELSE LET normalized == IF Nullish(name_en) THEN Undef
                                 ELSE Str(normalizedName(name_en.val))
                   ruleEntry == Lookup(map, ToPropertyKey(normalized))
               IN IF ~Nullish(ruleEntry) /\ Truthy(Get(ruleEntry, "compNote"))
                  THEN [acc EXCEPT !.notes = SetAdd(@, Get(ruleEntry, "compNote"))]
                  ELSE acc

RECURSIVE forEachMounts(_, _, _)
forEachMounts(acc, elems, map) ==
  IF acc.threw \/ elems = <<>> THEN acc
  ELSE forEachMounts(mountsItem(acc, Head(elems), map), Tail(elems), map)

checkMounts(acc, unit, map) ==
  IF acc.threw THEN acc
  ELSE LET mounts == Get(unit, "mounts")
       IN IF ~Truthy(mounts) THEN acc
          ELSE IF ~IsArray(mounts) THEN Thrown
          ELSE forEachMounts(acc, mounts.val, map)

commandName(acc, commandItem, map) ==
  IF acc.threw THEN acc
  ELSE IF Nullish(commandItem) THEN Thrown
  ELSE IF NotActive(commandItem) THEN acc
  ELSE addSplitNamed(acc, commandItem, map)

RECURSIVE forEachCommandName(_, _, _)
forEachCommandName(acc, elems, map) ==
  IF acc.threw \/ elems = <<>> THEN acc
  ELSE forEachCommandName(commandName(acc, Head(elems), map), Tail(elems), map)

\* the nested magic.selected of a command entry left unread
commandMagicUnread(acc, commandItem, map) ==
  IF acc.threw THEN acc
  ELSE IF Nullish(commandItem) THEN Thrown
  ELSE acc

commandMagic(acc, commandItem, map) ==
  IF acc.threw THEN acc
  ELSE IF Nullish(commandItem) THEN Thrown
  ELSE IF NotActive(commandItem) THEN acc
  ELSE LET magic == Get(commandItem, "magic")
       IN IF ~Truthy(magic) THEN acc
          ELSE IF Truthy(Get(magic, "selected")) /\ IsArray(Get(magic, "selected"))
               THEN forEachNamed(acc, Get(magic, "selected").val, map)
          ELSE acc

RECURSIVE forEachCommandMagic(_, _, _)
forEachCommandMagic(acc, elems, map) ==
  IF acc.threw \/ elems = <<>> THEN acc
  ELSE forEachCommandMagic(commandMagic(acc, Head(elems), map), Tail(elems), map)

\* the two loops over unit.command: every name first, then every magic.selected
checkCommand(acc, unit, map) ==
  IF acc.threw THEN acc
  ELSE IF Truthy(Get(unit, "command")) /\ IsArray(Get(unit, "command"))
       THEN forEachCommandMagic(
              forEachCommandName(acc, Get(unit, "command").val, map),
              Get(unit, "command").val, map)
  ELSE acc

\* the visits with magicItems and options before equipment
collectOptionsEarly(compNotes, unit, map) ==
  LET a1 == checkName(compNotes, unit, map)
      a2 == checkMount(a1, unit, map)
      a3 == checkSpecialRules(a2, unit, map)
      a4 == checkWeapons(a3, unit, map)
      a5 == checkMagicItems(a4, unit, map)
      a6 == checkOptions(a5, unit, map)
      a7 == checkEquipment(a6, unit, map)
      a8 == checkItems(a7, unit, map)
      a9 == checkArmor(a8, unit, map)
      a10 == checkMounts(a9, unit, map)
  IN checkCommand(a10, unit, map)

\* the visits of the fields, from the Set compNotes as it is at the start
collectFrom(compNotes, unit, map) ==
  LET a1 == checkName(compNotes, unit, map)
      a2 == checkMount(a1, unit, map)
      a3 == checkSpecialRules(a2, unit, map)
      a4 == checkWeapons(a3, unit, map)
      a5 == checkEquipment(a4, unit, map)
      a6 == checkMagicItems(a5, unit, map)
      a7 == checkItems(a6, unit, map)
      a8 == checkArmor(a7, unit, map)
      a9 == checkOptions(a8, unit, map)
      a10 == checkMounts(a9, unit, map)
  IN checkCommand(a10, unit, map)

\* the outcome of a call: threw, or the array Array.from(compNotes)
getUnitCompNotes(unit, map) == collectFrom(NoNotes, unit, map)

-----------------------------------------------------------------------------
(* getUnitCompNotes of src/utils/comp-notes-handler.js, the earlier and     *)
(* simpler implementation                                                  *)

\* addCompNote with normalizedName = ruleName.toLowerCase().trim()
addCompNoteSimple(acc, ruleName, map) ==
  IF acc.threw THEN acc
  ELSE IF ~Truthy(ruleName) THEN acc
  ELSE IF ruleName.kind # "string" THEN Thrown
  ELSE LET ruleEntry == Lookup(map, trim(toLowerCase(ruleName.val)))
       IN IF HasCompNote(ruleEntry)
          THEN [acc EXCEPT !.notes = SetAdd(@, Get(ruleEntry, "compNote"))]
          ELSE acc

\* if (typeof x === 'string') addCompNote(x); else if (x.name) addCompNote(x.name);
elementSimple(acc, x, map) ==
  IF acc.threw THEN acc
  ELSE IF x.kind = "string" THEN addCompNoteSimple(acc, x, map)
  ELSE IF Nullish(x) THEN Thrown
  ELSE IF Truthy(Get(x, "name")) THEN addCompNoteSimple(acc, Get(x, "name"), map)
  ELSE acc

RECURSIVE forEachSimple(_, _, _)
forEachSimple(acc, elems, map) ==
  IF acc.threw \/ elems = <<>> THEN acc
  ELSE forEachSimple(elementSimple(acc, Head(elems), map), Tail(elems), map)

\* if (unit.f && Array.isArray(unit.f)) unit.f.forEach(...)
checkArraySimple(acc, unit, f, map) ==
  IF acc.threw THEN acc
  ELSE IF Truthy(Get(unit, f)) /\ IsArray(Get(unit, f))
       THEN forEachSimple(acc, Get(unit, f).val, map)
  ELSE acc

\* if (unit.f) addCompNote(unit.f), for name and mount
checkTextSimple(acc, unit, f, map) ==
  IF acc.threw THEN acc
  ELSE IF Nullish(unit) THEN Thrown
  ELSE IF Truthy(Get(unit, f)) THEN addCompNoteSimple(acc, Get(unit, f), map)
  ELSE acc

checkArmorSimple(acc, unit, map) ==
  IF acc.threw THEN acc
  ELSE LET armor == Get(unit, "armor")
       IN IF ~Truthy(armor) THEN acc
          ELSE IF armor.kind = "string" THEN addCompNoteSimple(acc, armor, map)
          ELSE IF IsArray(armor) THEN forEachSimple(acc, armor.val, map)
          ELSE acc

\* the outcome of a call: threw, or the array Array.from(compNotes)
getUnitCompNotesSimple(unit, map) ==
  LET a1 == checkTextSimple(NoNotes, unit, "name", map)
      a2 == checkTextSimple(a1, unit, "mount", map)
      a3 == checkArraySimple(a2, unit, "specialRules", map)
      a4 == checkArraySimple(a3, unit, "weapons", map)
      a5 == checkArraySimple(a4, unit, "equipment", map)
      a6 == checkArraySimple(a5, unit, "magicItems", map)
      a7 == checkArmorSimple(a6, unit, map)
  IN checkArraySimple(a7, unit, "options", map)

-----------------------------------------------------------------------------
(* generateCompNotesHTML, addCompNotesToPrint *)

\* the template literal up to ${notesText}
HtmlOpen ==
  <<"\n", " ", " ", " ", " ", "<", "d", "i", "v", " ", "c", "l", "a", "s",
    "s", "=", "\"", "c", "o", "m", "p", "-", "n", "o", "t", "e", "s", "-",
    "s", "e", "c", "t", "i", "o", "n", "\"", ">", "\n", " ", " ", " ", " ",
    " ", " ", "<", "h", "4", ">", "C", "o", "m", "p", " ", "N", "o", "t",
    "e", "s", "<", "/", "h", "4", ">", "\n", " ", " ", " ", " ", " ", " ",
    "<", "p", ">">>

\* the template literal after ${notesText}
HtmlClose ==
  <<"<", "/", "p", ">", "\n", " ", " ", " ", " ", "<", "/", "d", "i", "v",
    ">", "\n", " ", " ">>

\* the separator of compNotes.join(', ')
Separator == <<",", " ">>

\* the elements joined from the last to the first
RECURSIVE joinReversed(_, _)
joinReversed(elems, sep) ==
  IF elems = <<>> THEN <<>>
  ELSE IF Len(elems) = 1 THEN Head(elems).val
  ELSE joinReversed(Tail(elems), sep) \o sep \o Head(elems).val

\* Array.prototype.join of an array of strings
RECURSIVE join(_, _)
join(elems, sep) ==
  IF elems = <<>> THEN <<>>
  ELSE IF Len(elems) = 1 THEN Head(elems).val
  ELSE Head(elems).val \o sep \o join(Tail(elems), sep)

\* the template filled in without the test compNotes.length === 0
generateWithoutLengthTest(compNotes) ==
  IF ~Truthy(compNotes) THEN <<>>
  ELSE HtmlOpen \o join(compNotes.val, Separator) \o HtmlClose

\* compNotes: null, undefined or an array of strings
generateCompNotesHTML(compNotes) ==
  IF ~Truthy(compNotes) \/ Len(compNotes.val) = 0 THEN <<>>
  ELSE HtmlOpen \o join(compNotes.val, Separator) \o HtmlClose

\* the fragment of the first note of the unit alone
addFirstNoteToPrint(unit, map) ==
  LET compNotes == getUnitCompNotes(unit, map)
  IN IF compNotes.threw THEN [threw |-> TRUE, html |-> <<>>]
     ELSE IF compNotes.notes = <<>> THEN [threw |-> FALSE, html |-> <<>>]
     ELSE [threw |-> FALSE,
           html |-> generateCompNotesHTML(Arr(<<Head(compNotes.notes)>>))]

\* the outcome of a call: threw, or the returned text
addCompNotesToPrint(unit, map) ==
  LET compNotes == getUnitCompNotes(unit, map)
  IN IF compNotes.threw THEN [threw |-> TRUE, html |-> <<>>]
     ELSE [threw |-> FALSE, html |-> generateCompNotesHTML(Arr(compNotes.notes))]

-----------------------------------------------------------------------------
(* getArmyCompNotes *)

\* unit.id || index
UnitKey(unit, index) ==
  IF Truthy(Get(unit, "id")) THEN Get(unit, "id") ELSE Num(index)

\* result[key] = entry
SetProperty(obj, key, entry) ==
  [k \in DOMAIN obj \cup {key} |-> IF k = key THEN entry ELSE obj[k]]

\* the pass without the test compNotes.length > 0
armyUnitUnguarded(acc, unit, index, map) ==
  IF acc.threw THEN acc
  ELSE LET compNotes == getUnitCompNotes(unit, map)
       IN IF compNotes.threw THEN [threw |-> TRUE, map |-> <<>>]
          ELSE [acc EXCEPT !.map =
                  SetProperty(@, ToPropertyKey(UnitKey(unit, index)),
                    [compNotes |-> compNotes.notes,
                     html |-> generateCompNotesHTML(Arr(compNotes.notes))])]

\* one pass of army.forEach((unit, index) => ...); index counts from 0
armyUnit(acc, unit, index, map) ==
  IF acc.threw THEN acc
  ELSE LET compNotes == getUnitCompNotes(unit, map)
       IN IF compNotes.threw THEN [threw |-> TRUE, map |-> <<>>]
          ELSE IF Len(compNotes.notes) > 0
          THEN [acc EXCEPT !.map =
                  SetProperty(@, ToPropertyKey(UnitKey(unit, index)),
                    [compNotes |-> compNotes.notes,
                     html |-> generateCompNotesHTML(Arr(compNotes.notes))])]
          ELSE acc

RECURSIVE forEachArmyUnit(_, _, _, _)
forEachArmyUnit(acc, units, index, map) ==
  IF acc.threw \/ index >= Len(units) THEN acc
  ELSE forEachArmyUnit(armyUnit(acc, units[index + 1], index, map),
                       units, index + 1, map)

\* the outcome of a call: threw, or the returned object as the function
\* from its property names to its entries
getArmyCompNotes(armyArg, map) ==
  IF ~IsArray(armyArg) THEN [threw |-> FALSE, map |-> <<>>]
  ELSE forEachArmyUnit([threw |-> FALSE, map |-> <<>>], armyArg.val, 0, map)

-----------------------------------------------------------------------------
(* getAllArmyCompNotes *)

\* the notes of the unit appended, whether present or not
appendAll(notes, unitNotes) == notes \o unitNotes

\* unitNotes.forEach(note => allNotes.add(note))
RECURSIVE addAll(_, _)
addAll(notes, unitNotes) ==
  IF unitNotes = <<>> THEN notes
  ELSE addAll(SetAdd(notes, Head(unitNotes)), Tail(unitNotes))

allNotesUnit(acc, unit, map) ==
  IF acc.threw THEN acc
  ELSE LET unitNotes == getUnitCompNotes(unit, map)
       IN IF unitNotes.threw THEN Thrown
          ELSE [acc EXCEPT !.notes = addAll(@, unitNotes.notes)]

RECURSIVE forEachAllNotes(_, _, _)
forEachAllNotes(acc, units, map) ==
  IF acc.threw \/ units = <<>> THEN acc
  ELSE forEachAllNotes(allNotesUnit(acc, Head(units), map), Tail(units), map)

\* v put into the ascending sequence sorted, before the first element
\* that the comparison puts after it
RECURSIVE InsertSorted(_, _)
InsertSorted(sorted, v) ==
  IF sorted = <<>> THEN <<v>>
  ELSE IF StrLess(v.val, Head(sorted).val) THEN <<v>> \o sorted
  ELSE <<Head(sorted)>> \o InsertSorted(Tail(sorted), v)

\* the array as it is, in insertion order
unsorted(elems) == elems

\* Array.prototype.sort() with the default comparison, on strings
RECURSIVE sort(_)
sort(elems) ==
  IF elems = <<>> THEN <<>>
  ELSE InsertSorted(sort(Tail(elems)), Head(elems))

\* army.forEach reached without the test Array.isArray(army)
getAllWithoutArrayTest(armyArg, map) ==
  IF ~IsArray(armyArg) THEN Thrown
  ELSE LET allNotes == forEachAllNotes(NoNotes, armyArg.val, map)
       IN IF allNotes.threw THEN Thrown
          ELSE [allNotes EXCEPT !.notes = sort(@)]

\* the outcome of a call: threw, or the returned array
getAllArmyCompNotes(armyArg, map) ==
  IF ~IsArray(armyArg) THEN NoNotes
  ELSE LET allNotes == forEachAllNotes(NoNotes, armyArg.val, map)
       IN IF allNotes.threw THEN Thrown
          ELSE [allNotes EXCEPT !.notes = sort(@)]

-----------------------------------------------------------------------------
(* Inputs: rules dictionaries *)

NoteN == Str(<<"N">>)

NoteM == Str(<<"M">>)

NoteN1 == Str(<<"N", "1">>)

NoteLowerM == Str(<<"m">>)

Url == Str(<<"u">>)

\* an entry with a composition note, and one without
WithNote(note) == Obj([url |-> Url, compNote |-> note])

WithoutNote == Obj([url |-> Url])

KeyA == <<"a">>

KeyB == <<"b">>

KeyC == <<"c">>

KeyAB == <<"a", ",", "b">>

\* every rule with its own note, one rule without a note, and one rule
\* whose name holds a comma
DictPlain ==
  (KeyA :> WithNote(NoteN)) @@ (KeyB :> WithNote(NoteM))
    @@ (KeyC :> WithoutNote) @@ (KeyAB :> WithNote(NoteN1))

\* two rules carrying the same note text, one rule with an empty note
DictShared ==
  (KeyA :> WithNote(NoteN)) @@ (KeyB :> WithNote(NoteN))
    @@ (KeyC :> WithNote(Str(<<>>)))

\* rules named "undefined" and "", and notes that differ in letter case
DictOdd ==
  (KeyA :> WithNote(NoteLowerM)) @@ (KeyB :> WithNote(NoteM))
    @@ (UndefinedText :> WithNote(NoteN)) @@ (<<>> :> WithNote(NoteN1))

Dictionaries == {DictPlain, DictShared, DictOdd}

-----------------------------------------------------------------------------
(* Inputs: unit records *)

\* the longest sequence of elements enumerated in full in one field
MaxSeq == 2

\* the longest army enumerated in full
MaxArmy == 2

SeqsUpTo(S, n) == UNION {[1..k -> S] : k \in 0..n}

Names ==
  { <<"a">>, <<"b">>, <<"c">>, <<"z">>, <<"A">>, <<" ", "a", " ">>,
    <<"{", "a", "}">>, <<"{", "}", " ", "a">>, <<"a", ",", "b">>,
    <<"a", ",", " ", "B">>, <<"{", "C", "}", " ">>, <<" ">>, <<>> }

\* elements of specialRules, weapons, magicItems, options, armor and of the
\* selected sequences: plain text, name-bearing objects, and other values
ItemPool ==
  {Str(n) : n \in Names}
    \cup {Obj([name |-> Str(n)]) :
            n \in {<<"a">>, <<"b">>, <<"a", ",", "b">>, <<"{", "}", " ", "a">>}}
    \cup {Obj([name_en |-> Str(n)]) : n \in {<<"a">>, <<"a", ",", " ", "B">>}}
    \cup { Obj([name_cn |-> Str(<<"b">>), name |-> Str(<<"a">>)]),
           Obj([name_en |-> Str(<<>>), name |-> Str(<<"a">>)]),
           Obj([name_it |-> Str(<<"b">>)]),
           Obj([name |-> Num(5)]),
           EmptyObj, Null }

CoreItems ==
  {Str(<<"a">>), Obj([name |-> Str(<<"b">>)]), Str(<<"b", ",", "a">>)}

NamedArrays ==
  {Arr(<<x>>) : x \in ItemPool} \cup {Arr(s) : s \in SeqsUpTo(CoreItems, MaxSeq)}

\* elements of equipment and mounts
EntryPool ==
  {Obj([active |-> Bool(act), name_en |-> Str(n)]) :
     act \in BOOLEAN, n \in Names}
    \cup { Obj([name_en |-> Str(<<"a">>)]),
           Obj([active |-> Bool(TRUE)]),
           Obj([active |-> Bool(TRUE), name |-> Str(<<"a">>)]),
           Obj([active |-> Num(1), name_en |-> Str(<<"a">>)]),
           Obj([active |-> Bool(TRUE), name_en |-> Num(5)]),
           Str(<<"a">>), Null }

CoreEntries ==
  { Obj([active |-> Bool(TRUE), name_en |-> Str(<<"a">>)]),
    Obj([active |-> Bool(TRUE), name_en |-> Str(<<"b">>)]),
    Obj([active |-> Bool(FALSE), name_en |-> Str(<<"a">>)]) }

EntryArrays ==
  {Arr(<<x>>) : x \in EntryPool} \cup {Arr(s) : s \in SeqsUpTo(CoreEntries, MaxSeq)}

Selected(elems) == Obj([selected |-> Arr(elems)])

\* elements of items
CategoryPool ==
  {Selected(<<x>>) : x \in ItemPool}
    \cup {Selected(s) : s \in SeqsUpTo(CoreItems, MaxSeq)}
    \cup {EmptyObj, Obj([selected |-> Str(<<"a">>)]), Null}

CoreCategories == {Selected(<<Str(<<"a">>)>>), Selected(<<Str(<<"b">>)>>)}

CategoryArrays ==
  {Arr(<<x>>) : x \in CategoryPool}
    \cup {Arr(s) : s \in SeqsUpTo(CoreCategories, MaxSeq)}

\* elements of command
CommandPool ==
  {Obj([active |-> Bool(TRUE), name_en |-> Str(n)]) : n \in Names}
    \cup {Obj([active |-> Bool(TRUE), name_en |-> Str(n), magic |-> Selected(<<x>>)]) :
            n \in {<<"a">>, <<"z">>}, x \in CoreItems}
    \cup {Obj([active |-> Bool(FALSE), name_en |-> Str(n), magic |-> Selected(<<x>>)]) :
            n \in {<<"a">>, <<"z">>}, x \in CoreItems}
    \cup { Obj([active |-> Bool(TRUE), name |-> Str(<<"a">>)]),
           Obj([active |-> Bool(TRUE), magic |-> Selected(<<Str(<<"b">>)>>)]),
           Obj([active |-> Bool(TRUE), name_en |-> Str(<<"a">>), magic |-> EmptyObj]),
           Obj([name_en |-> Str(<<"a">>), magic |-> Selected(<<Str(<<"b">>)>>)]),
           Obj([active |-> Bool(TRUE)]),
           Str(<<"a">>), Null }

CoreCommands ==
  { Obj([active |-> Bool(TRUE), name_en |-> Str(<<"z">>),
         magic |-> Selected(<<Str(<<"a">>)>>)]),
    Obj([active |-> Bool(TRUE), name_en |-> Str(<<"b">>)]),
    Obj([active |-> Bool(FALSE), name_en |-> Str(<<"a">>)]) }

CommandArrays ==
  {Arr(<<x>>) : x \in CommandPool}
    \cup {Arr(s) : s \in SeqsUpTo(CoreCommands, MaxSeq)}

\* plain text or a name-bearing object, and a number
ScalarPool ==
  {Str(n) : n \in Names}
    \cup { Obj([name_en |-> Str(<<"a">>)]), Obj([name |-> Str(<<"b">>)]),
           Obj([name_en |-> Str(<<"a", ",", "b">>)]), Num(5) }

NameFields ==
  {"name", "name_en", "name_cn", "name_de", "name_es", "name_fr", "name_it"}

NamedArrayFields == {"weapons", "magicItems", "options"}

\* the values one field of a unit record takes
FieldValues(f) ==
  CASE f = "name" -> ScalarPool
    [] f \in NameFields \ {"name"} -> {Str(<<"a">>), Str(<<"b">>), Str(<<>>)}
    [] f = "mount" -> ScalarPool
    [] f = "specialRules" -> NamedArrays \cup ScalarPool
    [] f \in NamedArrayFields -> NamedArrays \cup {Str(<<"a">>)}
    [] f = "armor" -> NamedArrays \cup ScalarPool
    [] f \in {"equipment", "mounts"} ->
         EntryArrays \cup {Str(<<"a">>), Obj([name_en |-> Str(<<"a">>)])}
    [] f = "items" -> CategoryArrays \cup {Str(<<"a">>)}
    [] f = "command" -> CommandArrays \cup {Str(<<"a">>)}

\* one value of a field that resolves to the text n
SimpleValue(f, n) ==
  CASE f \in NameFields \cup {"mount"} -> Str(n)
    [] f \in NamedArrayFields \cup {"specialRules", "armor"} -> Arr(<<Str(n)>>)
    [] f \in {"equipment", "mounts", "command"} ->
         Arr(<<Obj([active |-> Bool(TRUE), name_en |-> Str(n)])>>)
    [] f = "items" -> Arr(<<Selected(<<Str(n)>>)>>)

Fields ==
  NameFields \cup NamedArrayFields
    \cup {"mount", "specialRules", "armor", "equipment", "mounts", "items", "command"}

\* the fields combined two by two
PairFields ==
  {"name", "name_en", "mount", "specialRules", "armor", "equipment", "mounts",
   "items", "command"} \cup NamedArrayFields

OneFieldUnits == UNION {{Obj(f :> v) : v \in FieldValues(f)} : f \in Fields}

PairNames == {<<"a">>, <<"b">>, <<"c">>}

\* two fields, each resolving to a, to b or to c
TwoFieldUnits ==
  {Obj((p[1] :> SimpleValue(p[1], n)) @@ (p[2] :> SimpleValue(p[2], m))) :
     p \in {q \in PairFields \X PairFields : q[1] # q[2]},
     n \in PairNames, m \in PairNames}

\* the unit records collected one at a time
Units == OneFieldUnits \cup TwoFieldUnits \cup {EmptyObj, Null, Str(<<"a">>)}

\* the units of the armies: with no note, one note and two notes, and an id
\* that is absent, 0, or 1
ArmyUnits ==
  {Obj([name |-> Str(n)]) : n \in {<<"a">>, <<"z">>}}
    \cup {Obj([name |-> Str(n), id |-> Num(i)]) :
            n \in {<<"a">>, <<"z">>}, i \in {0, 1}}
    \cup {Obj([name |-> Str(<<"b">>), mount |-> Str(<<"a">>)])}
    \cup {Obj([name |-> Str(<<"b">>), mount |-> Str(<<"a">>), id |-> Num(i)]) :
            i \in {0, 1}}
    \cup {Obj([name |-> Str(<<"b">>), id |-> Str(<<"1">>)]), Null}

\* the armies: one unit record of any shape, or up to MaxArmy units with ids
Armies ==
  {Arr(<<u>>) : u \in Units} \cup {Arr(s) : s \in SeqsUpTo(ArmyUnits, MaxArmy)}

\* values given for the army that are no array: absent, a plain object,
\* a string, a number
NonArrays ==
  { Undef, Null, EmptyObj, Obj([name |-> Str(<<"a">>)]),
    Obj([length |-> Num(1)]), Str(<<"a">>), Str(<<>>), Num(0), Num(1) }

-----------------------------------------------------------------------------
(* Inputs: arguments of generateCompNotesHTML and of extractName *)

\* the longest array of notes given to generateCompNotesHTML
MaxNotes == 2

\* null, undefined, and the arrays of up to MaxNotes notes
NotesInputs ==
  {Undef, Null}
    \cup {Arr(s) : s \in SeqsUpTo({NoteN, NoteM, NoteN1, NoteLowerM}, MaxNotes)}

\* name-bearing objects with two of the name properties
TwoNameObjects ==
  {Obj((p[1] :> Str(n)) @@ (p[2] :> Str(<<"b">>))) :
     p \in {q \in NameFields \X NameFields : q[1] # q[2]},
     n \in {<<"a">>, <<>>}}

\* the items given to extractName
ExtractInputs ==
  ItemPool \cup TwoNameObjects
    \cup {Undef, Bool(TRUE), Bool(FALSE), Num(0), Num(5), Arr(<<Str(<<"a">>)>>)}

-----------------------------------------------------------------------------
(* JSON text, localStorage and the store's saved state (store.js) *)

\* the property names of the stored values, in the order they are written
PropertyNames == <<"id", "name", "lang", "lists">>

PropertyText(p) ==
  CASE p = "id" -> <<"i", "d">>
    [] p = "name" -> <<"n", "a", "m", "e">>
    [] p = "lang" -> <<"l", "a", "n", "g">>
    [] p = "lists" -> <<"l", "i", "s", "t", "s">>

NullText == <<"n", "u", "l", "l">>

Quoted(s) == <<"\"">> \o s \o <<"\"">>

RECURSIVE stringifyText(_), stringifyElements(_), stringifyProperties(_, _, _)

\* the JSON text of a value other than undefined
stringifyText(v) ==
  CASE v.kind = "null" -> NullText
    [] v.kind = "boolean" ->
         IF v.val THEN <<"t", "r", "u", "e">> ELSE <<"f", "a", "l", "s", "e">>
    [] v.kind = "number" -> NumToString(v.val)
    [] v.kind = "string" -> Quoted(v.val)
    [] v.kind = "array" -> <<"[">> \o stringifyElements(v.val) \o <<"]">>
    [] v.kind = "object" ->
         <<"{">> \o stringifyProperties(v.val, PropertyNames, TRUE) \o <<"}">>

\* the elements of an array, undefined written as null
stringifyElements(elems) ==
  IF elems = <<>> THEN <<>>
  ELSE (IF Head(elems).kind = "undefined" THEN NullText
        ELSE stringifyText(Head(elems)))
       \o (IF Tail(elems) = <<>> THEN <<>>
           ELSE <<",">> \o stringifyElements(Tail(elems)))

\* the properties of an object, one whose value is undefined left out
stringifyProperties(obj, names, first) ==
  IF names = <<>> THEN <<>>
  ELSE LET p == Head(names)
       IN IF p \in DOMAIN obj /\ obj[p].kind # "undefined"
          THEN (IF first THEN <<>> ELSE <<",">>)
               \o Quoted(PropertyText(p)) \o <<":">> \o stringifyText(obj[p])
               \o stringifyProperties(obj, Tail(names), FALSE)
          ELSE stringifyProperties(obj, Tail(names), first)

\* JSON.stringify(v): a string, or undefined for undefined
stringify(v) == IF v.kind = "undefined" THEN Undef ELSE Str(stringifyText(v))

\* the lists, settings and armies the store holds
ListA == Obj([id |-> Str(<<"a">>)])

ListB == Obj([id |-> Str(<<"b">>), name |-> Str(<<"B">>)])

ListsPool == {Arr(<<>>), Arr(<<ListA>>), Arr(<<ListB>>), Arr(<<ListB, ListA>>)}

SettingsPool ==
  {Obj([lang |-> Str(<<"e">>)]), Obj([lang |-> Str(<<"d">>)]),
   Obj([lang |-> Str(<<"e">>), name |-> Str(<<"a">>)])}

ArmyPool == {ListA, ListB}

\* the values whose JSON text is read back
JsonValues == ListsPool \cup SettingsPool \cup ArmyPool \cup {Null}

\* JSON.parse(text) raises a SyntaxError for a text that is no JSON text
IsJsonText(text) == \E v \in JsonValues : stringifyText(v) = text

\* JSON.parse(text): the value the text is the JSON text of
parse(text) == CHOOSE v \in JsonValues : stringifyText(v) = text

StorageKeys == {"owb.lists", "owb.settings", "owb.army", "owb.syncId"}

\* localStorage with no item
EmptyStorage == [k \in StorageKeys |-> Null]

\* localStorage.getItem(key): the text stored, or null
getItem(storage, key) == storage[key]

\* localStorage.setItem(key, v) stores String(v)
setItem(storage, key, v) ==
  [storage EXCEPT ![key] = IF v.kind = "undefined" THEN Str(UndefinedText) ELSE v]

\* item ? JSON.parse(item) : otherwise
parseOr(item, otherwise) == IF Truthy(item) THEN parse(item.val) ELSE otherwise

\* loadState(): the preloaded state, or undefined when JSON.parse raised
loadState(storage) ==
  LET lists == getItem(storage, "owb.lists")
      settings == getItem(storage, "owb.settings")
      storedArmy == getItem(storage, "owb.army")
  IN IF \E item \in {lists, settings, storedArmy} :
          Truthy(item) /\ ~IsJsonText(item.val)
     THEN Undef
     ELSE Obj([lists |-> parseOr(lists, Arr(<<>>)),
               settings |-> parseOr(settings, Undef),
               army |-> parseOr(storedArmy, Null)])

\* saveState(state): localStorage after it
saveState(storage, st) ==
  LET s1 == setItem(storage, "owb.lists", stringify(Get(st, "lists")))
      s2 == setItem(s1, "owb.settings", stringify(Get(st, "settings")))
  IN IF Truthy(Get(st, "army"))
     THEN setItem(s2, "owb.army", stringify(Get(st, "army")))
     ELSE s2

\* configureStore({reducer, preloadedState}): a slice not preloaded takes its
\* reducer's initial state (the slices items, errors and rulesIndex are never
\* saved and are left out)
configureStore(preloadedState, initialSettings) ==
  Obj([lists |-> IF Get(preloadedState, "lists").kind = "undefined"
                 THEN Arr(<<>>) ELSE Get(preloadedState, "lists"),
       settings |-> IF Get(preloadedState, "settings").kind = "undefined"
                    THEN initialSettings ELSE Get(preloadedState, "settings"),
       army |-> IF Get(preloadedState, "army").kind = "undefined"
                THEN Null ELSE Get(preloadedState, "army")])

\* no loadState() under way
NotLoaded == [kind |-> "not loaded"]

\* the sync codes, and the documents of the collection armylists
SyncIds == {<<"s">>, <<"t">>}

NoDocuments == [id \in SyncIds |-> Undef]

\* the application at rest: no sync under way, nothing stored
AppAtRest ==
  /\ status = "idle"
  /\ handlers = <<>>
  /\ firestore = NoDocuments
  /\ localStorage = EmptyStorage
  /\ state = configureStore(Undef, Obj([lang |-> Str(<<"e">>)]))
  /\ loaded = NotLoaded

-----------------------------------------------------------------------------
(* The entry points, called on an army list and a rules dictionary *)

\* the function called last and its first argument
NotCalled == [fn |-> "none", arg |-> Undef]

Init ==
  /\ rulesMap \in Dictionaries
  /\ army \in Armies \cup NonArrays
  /\ called = NotCalled
  /\ result = Undef
  /\ AppAtRest

\* getUnitCompNotes(army[i - 1], rulesMap)
GetUnitCompNotes(i) ==
  /\ called' = [fn |-> "getUnitCompNotes", arg |-> army.val[i]]
  /\ result' = getUnitCompNotes(army.val[i], rulesMap)
  /\ UNCHANGED <<rulesMap, army, appVars>>

\* addCompNotesToPrint(army[i - 1], rulesMap)
AddCompNotesToPrint(i) ==
  /\ called' = [fn |-> "addCompNotesToPrint", arg |-> army.val[i]]
  /\ result' = addCompNotesToPrint(army.val[i], rulesMap)
  /\ UNCHANGED <<rulesMap, army, appVars>>

\* getUnitCompNotes of src/utils/comp-notes-handler.js on army[i - 1]
GetUnitCompNotesSimple(i) ==
  /\ called' = [fn |-> "getUnitCompNotesSimple", arg |-> army.val[i]]
  /\ result' = getUnitCompNotesSimple(army.val[i], rulesMap)
  /\ UNCHANGED <<rulesMap, army, appVars>>

GetArmyCompNotes ==
  /\ called' = [fn |-> "getArmyCompNotes", arg |-> army]
  /\ result' = getArmyCompNotes(army, rulesMap)
  /\ UNCHANGED <<rulesMap, army, appVars>>

\* the army list given reversed in place by the call
GetAllReversingArmy ==
  /\ called' = [fn |-> "getAllArmyCompNotes", arg |-> army]
  /\ result' = getAllArmyCompNotes(army, rulesMap)
  /\ army' = IF IsArray(army)
             THEN Arr([i \in DOMAIN army.val |-> army.val[Len(army.val) + 1 - i]])
             ELSE army
  /\ UNCHANGED <<rulesMap, appVars>>

GetAllArmyCompNotes ==
  /\ called' = [fn |-> "getAllArmyCompNotes", arg |-> army]
  /\ result' = getAllArmyCompNotes(army, rulesMap)
  /\ UNCHANGED <<rulesMap, army, appVars>>

\* generateCompNotesHTML(compNotes)
GenerateCompNotesHTML(compNotes) ==
  /\ called' = [fn |-> "generateCompNotesHTML", arg |-> compNotes]
  /\ result' = [threw |-> FALSE, html |-> generateCompNotesHTML(compNotes)]
  /\ UNCHANGED <<rulesMap, army, appVars>>

\* extractName(item)
ExtractName(item) ==
  /\ called' = [fn |-> "extractName", arg |-> item]
  /\ result' = extractName(item)
  /\ UNCHANGED <<rulesMap, army, appVars>>

Next ==
  \/ IsArray(army) /\ \E i \in 1..Len(army.val) : GetUnitCompNotes(i)
  \/ IsArray(army) /\ \E i \in 1..Len(army.val) : AddCompNotesToPrint(i)
  \/ IsArray(army) /\ \E i \in 1..Len(army.val) : GetUnitCompNotesSimple(i)
  \/ GetArmyCompNotes
  \/ GetAllArmyCompNotes

Spec == Init /\ [][Next]_vars

\* the formatter and the name resolution on their own: no army is given
InitPure ==
  /\ rulesMap \in Dictionaries
  /\ army = Arr(<<>>)
  /\ called = NotCalled
  /\ result = Undef
  /\ AppAtRest

NextPure ==
  \/ \E compNotes \in NotesInputs : GenerateCompNotesHTML(compNotes)
  \/ \E item \in ExtractInputs : ExtractName(item)

SpecPure == InitPure /\ [][NextPure]_vars

-----------------------------------------------------------------------------
(* Properties of getUnitCompNotes *)

\* the call whose result the state holds
UnitCalled == called.fn = "getUnitCompNotes"

\* the unit record of that call
TheUnit == called.arg

NoDuplicates(s) == \A i, j \in DOMAIN s : i # j => s[i] # s[j]

\* the notes of the unit record made of the one field f of unit
FieldNotes(unit, f) == getUnitCompNotes(Obj(f :> unit.val[f]), rulesMap)

\* C1: the sequence getUnitCompNotes returns holds no note more than
\* once, also when two fields resolve to the same dictionary key or to two
\* keys that carry the same note text.
C1_NoDuplicateNotes ==
  (UnitCalled /\ ~result.threw) => NoDuplicates(result.notes)

\* two distinct fields of the unit each yield the same single note, and the
\* result holds it once
C1_Witness ==
  /\ UnitCalled
  /\ ~result.threw
  /\ TheUnit.kind = "object"
  /\ \E f, g \in DOMAIN TheUnit.val :
       /\ f # g
       /\ Len(FieldNotes(TheUnit, f).notes) = 1
       /\ FieldNotes(TheUnit, f) = FieldNotes(TheUnit, g)
       /\ result = FieldNotes(TheUnit, f)
       /\ TheUnit.val[f] # TheUnit.val[g]

\* every text inside a value: the value itself, the elements of an array,
\* the property values of an object
RECURSIVE Texts(_)
Texts(v) ==
  CASE v.kind = "string" -> {v.val}
    [] v.kind = "array" -> UNION {Texts(v.val[i]) : i \in DOMAIN v.val}
    [] v.kind = "object" -> UNION {Texts(v.val[p]) : p \in DOMAIN v.val}
    [] OTHER -> {}

\* the canonical key of a text: lower-cased, without curly braces, trimmed
CanonicalKey(t) == trim(replaceBraces(toLowerCase(t)))

\* the canonical keys of the texts of a unit and of their comma segments
UnitKeys(unit) ==
  UNION {{CanonicalKey(t)} \cup {CanonicalKey(seg) : seg \in Range(split(t))} :
           t \in Texts(unit)}

\* the note texts the dictionary holds
DictionaryNotes(map) ==
  {Get(map[k], "compNote") : k \in {j \in DOMAIN map : HasCompNote(map[j])}}

\* C2: getUnitCompNotes returns only composition notes of dictionary
\* entries, and returns no note for a unit none of whose field values has
\* its canonical key in the dictionary.
C2_SilenceOnNoMatch ==
  (UnitCalled /\ ~result.threw) =>
    /\ Range(result.notes) \subseteq DictionaryNotes(rulesMap)
    /\ (UnitKeys(TheUnit) \cap DOMAIN rulesMap = {}) => result.notes = <<>>

\* the part of C2 that holds: an active mounts entry without name_en set
\* aside (C16), a unit without a matching key yields no note
C2_ExceptNamelessMount ==
  (UnitCalled /\ ~result.threw) =>
    /\ Range(result.notes) \subseteq DictionaryNotes(rulesMap)
    /\ (/\ UnitKeys(TheUnit) \cap DOMAIN rulesMap = {}
        /\ Get(TheUnit, "mounts") = Undef)
       => result.notes = <<>>

RemoveAt(s, i) == SubSeq(s, 1, i - 1) \o SubSeq(s, i + 1, Len(s))

ReplaceAt(s, i, v) == [s EXCEPT ![i] = v]

InsertAt(s, i, v) == SubSeq(s, 1, i - 1) \o <<v>> \o SubSeq(s, i, Len(s))

\* the object without its property f, and with its property f set to v
WithoutProp(obj, f) == Obj([p \in DOMAIN obj.val \ {f} |-> obj.val[p]])

WithProp(obj, f, v) ==
  Obj([p \in DOMAIN obj.val \cup {f} |-> IF p = f THEN v ELSE obj.val[p]])

\* the object without its properties fs
WithoutProps(obj, fs) == Obj([p \in DOMAIN obj.val \ fs |-> obj.val[p]])

\* the fields holding one name-bearing value, and those holding a sequence
ScalarFields == {"mount", "armor", "specialRules"}

ArrayFields ==
  NamedArrayFields \cup {"specialRules", "armor", "equipment", "mounts", "command"}

\* the text a field value stands for: the display name name_en of an
\* equipment or mounts entry, the resolved name of any other value
ValueText(f, v) ==
  IF f \in {"equipment", "mounts"}
  THEN (IF Nullish(v) THEN Null ELSE Get(v, "name_en"))
  ELSE extractName(v)

\* the dictionary knows the text and attaches no note to it
KnownWithoutNote(t, map) ==
  /\ CanonicalKey(t) \in DOMAIN map
  /\ ~HasCompNote(map[CanonicalKey(t)])

NoNoteValue(f, v, map) ==
  /\ ValueText(f, v).kind = "string"
  /\ KnownWithoutNote(ValueText(f, v).val, map)

\* the indices of the sequence held by property f of obj, if it holds one
ArrayIndices(obj, f) ==
  IF ~Nullish(obj) /\ IsArray(Get(obj, f)) THEN DOMAIN Get(obj, f).val ELSE {}

\* the object holding a selected sequence, without the k-th element of it
WithoutSelected(holder, k) ==
  WithProp(holder, "selected", Arr(RemoveAt(holder.val.selected.val, k)))

\* the indices of the selected sequence of holder that hold a value the
\* dictionary knows without a note
NoNoteSelected(f, holder, map) ==
  {j \in ArrayIndices(holder, "selected") :
     NoNoteValue(f, holder.val.selected.val[j], map)}

\* the unit without one of its values that the dictionary knows without a
\* note: its own name (the name fields together resolve to one name), a
\* single-valued field, an element of a sequence, an element of a selected
\* sequence of items or of command
WithoutOneNoNoteValue(unit, map) ==
  (IF NoNoteValue("name", unit, map)
   THEN {WithoutProps(unit, NameFields)} ELSE {})
  \cup
  {WithoutProp(unit, f) :
     f \in {g \in DOMAIN unit.val \cap ScalarFields :
              NoNoteValue(g, unit.val[g], map)}}
  \cup UNION {
    {WithProp(unit, f, Arr(RemoveAt(unit.val[f].val, i))) :
       i \in {j \in ArrayIndices(unit, f) :
                NoNoteValue(f, unit.val[f].val[j], map)}} :
    f \in DOMAIN unit.val \cap ArrayFields}
  \cup UNION {
    {WithProp(unit, "items",
       Arr(ReplaceAt(unit.val.items.val, i,
                     WithoutSelected(unit.val.items.val[i], k)))) :
       k \in NoNoteSelected("items", unit.val.items.val[i], map)} :
    i \in ArrayIndices(unit, "items")}
  \cup UNION {
    {WithProp(unit, "command",
       Arr(ReplaceAt(unit.val.command.val, i,
                     WithProp(unit.val.command.val[i], "magic",
                       WithoutSelected(unit.val.command.val[i].val.magic, k))))) :
       k \in NoNoteSelected("command", Get(unit.val.command.val[i], "magic"), map)} :
    i \in {j \in ArrayIndices(unit, "command") :
             ~Nullish(unit.val.command.val[j])}}

\* C3: a field value whose canonical key is in the dictionary with an entry
\* that has no composition note contributes nothing: the call returns what
\* it returns for the unit without that value, and never the rule's name.
C3_NoNoteEntryContributesNothing ==
  (UnitCalled /\ TheUnit.kind = "object") =>
    /\ \A u \in WithoutOneNoNoteValue(TheUnit, rulesMap) :
         getUnitCompNotes(u, rulesMap) = result
    /\ \A t \in Texts(TheUnit) :
         KnownWithoutNote(t, rulesMap) => Str(t) \notin Range(result.notes)

\* a unit with a value known without a note beside a value with a note
C3_Witness ==
  /\ UnitCalled
  /\ TheUnit.kind = "object"
  /\ WithoutOneNoNoteValue(TheUnit, rulesMap) # {}
  /\ ~result.threw
  /\ Len(result.notes) > 0

\* the trimmed segments as plain texts
RECURSIVE AsTexts(_)
AsTexts(segs) ==
  IF segs = <<>> THEN <<>> ELSE <<Str(trim(Head(segs)))>> \o AsTexts(Tail(segs))

\* the trimmed comma-separated segments of the resolved text of a
\* specialRules entry, none for an entry without a name
RuleSegments(e) ==
  IF extractName(e).kind = "string" THEN AsTexts(split(extractName(e).val))
  ELSE <<>>

RECURSIVE AllRuleSegments(_)
AllRuleSegments(elems) ==
  IF elems = <<>> THEN <<>>
  ELSE RuleSegments(Head(elems)) \o AllRuleSegments(Tail(elems))

\* the entries of specialRules: its elements, or the single object
RuleEntries(unit) ==
  IF IsArray(unit.val.specialRules) THEN unit.val.specialRules.val
  ELSE <<unit.val.specialRules>>

\* the unit with every specialRules entry replaced by its segments, each a
\* plain-text element of its own
SegmentsApart(unit) ==
  WithProp(unit, "specialRules", Arr(AllRuleSegments(RuleEntries(unit))))

HasComma(t) == "," \in Range(t)

\* every specialRules entry resolves to a text or to no name
RulesResolve(unit) ==
  /\ unit.kind = "object"
  /\ "specialRules" \in DOMAIN unit.val
  /\ \A i \in DOMAIN RuleEntries(unit) :
       extractName(RuleEntries(unit)[i]).kind \in {"string", "null"}

\* C4: a specialRules entry whose resolved text is comma-joined is looked
\* up segment by segment: the call returns what it returns when every
\* trimmed segment is an entry of its own, and the whole text is not
\* looked up.
C4_RulesSplitOnComma ==
  (UnitCalled /\ RulesResolve(TheUnit)) =>
    getUnitCompNotes(SegmentsApart(TheUnit), rulesMap) = result

\* an entry "a,b" under a dictionary that has a, b and "a,b" with three
\* notes: the notes of a and b are returned, the note of "a,b" is not
C4_Witness ==
  /\ UnitCalled
  /\ RulesResolve(TheUnit)
  /\ \E i \in DOMAIN RuleEntries(TheUnit) :
       LET n == extractName(RuleEntries(TheUnit)[i])
       IN /\ n.kind = "string"
          /\ HasComma(n.val)
          /\ HasCompNote(Lookup(rulesMap, CanonicalKey(n.val)))
          /\ Get(Lookup(rulesMap, CanonicalKey(n.val)), "compNote")
               \notin Range(result.notes)
  /\ Len(result.notes) = 2

\* entries with active:false
InactiveEntries ==
  { Obj([active |-> Bool(FALSE)]),
    Obj([active |-> Bool(FALSE), name_en |-> Str(<<"a">>)]),
    Obj([active |-> Bool(FALSE), name |-> Str(<<"b">>)]),
    Obj([active |-> Bool(FALSE), name_en |-> Str(<<"a", ",", "b">>),
         magic |-> Selected(<<Str(<<"b">>)>>)]) }

ActiveFlagFields == {"equipment", "mounts", "command"}

\* the unit with the entry e added to its sequence f at any position, the
\* sequence being <<e>> when the unit has no field f
WithEntryAdded(unit, f, e) ==
  IF f \notin DOMAIN unit.val THEN {WithProp(unit, f, Arr(<<e>>))}
  ELSE IF IsArray(unit.val[f])
  THEN {WithProp(unit, f, Arr(InsertAt(unit.val[f].val, i, e))) :
          i \in 1..(Len(unit.val[f].val) + 1)}
  ELSE {}

\* C5: adding an entry with active:false to equipment, mounts or command
\* leaves the result of getUnitCompNotes as it is without the entry.
C5_InactiveEntryChangesNothing ==
  (UnitCalled /\ TheUnit.kind = "object") =>
    \A f \in ActiveFlagFields : \A e \in InactiveEntries :
      \A u \in WithEntryAdded(TheUnit, f, e) :
        getUnitCompNotes(u, rulesMap) = result

\* a sequence holding an entry with active:false whose name has a note in
\* the dictionary, beside an active entry: the result is that of the unit
\* without the inactive entry and lacks its note
C5_Witness ==
  /\ UnitCalled
  /\ TheUnit.kind = "object"
  /\ ~result.threw
  /\ Len(result.notes) > 0
  /\ \E f \in ActiveFlagFields : \E i \in ArrayIndices(TheUnit, f) :
       LET e == TheUnit.val[f].val[i]
       IN /\ e.kind = "object"
          /\ Get(e, "active") = Bool(FALSE)
          /\ Get(e, "name_en").kind = "string"
          /\ HasCompNote(Lookup(rulesMap, CanonicalKey(Get(e, "name_en").val)))
          /\ Get(Lookup(rulesMap, CanonicalKey(Get(e, "name_en").val)), "compNote")
               \notin Range(result.notes)
          /\ result = getUnitCompNotes(
               WithProp(TheUnit, f, Arr(RemoveAt(TheUnit.val[f].val, i))), rulesMap)

-----------------------------------------------------------------------------
(* Properties of getAllArmyCompNotes and getArmyCompNotes *)

\* the calls on an army list
AllCalled == called.fn = "getAllArmyCompNotes" /\ IsArray(army)

ArmyCalled == called.fn = "getArmyCompNotes" /\ IsArray(army)

\* the notes of the i-th unit of the army
UnitNotes(i) == getUnitCompNotes(army.val[i], rulesMap).notes

\* no note is followed by one that the code-unit order puts before it
Ascending(s) ==
  \A i \in 1..(Len(s) - 1) : ~StrLess(s[i + 1].val, s[i].val)

\* the sequence s rearranged by the permutation p of its indices
Permuted(s, p) == [i \in DOMAIN s |-> s[p[i]]]

\* C6: getAllArmyCompNotes returns its notes in ascending lexicographic
\* order, and returns the same for every permutation of the army.
C6_SummarySorted ==
  AllCalled =>
    /\ ~result.threw => Ascending(result.notes)
    /\ \A p \in Permutations(DOMAIN army.val) :
         getAllArmyCompNotes(Arr(Permuted(army.val, p)), rulesMap) = result

\* two notes or more, met in the army in another order than the sorted one
C6_Witness ==
  /\ AllCalled
  /\ ~result.threw
  /\ Len(result.notes) >= 2
  /\ Len(army.val) >= 2
  /\ forEachAllNotes(NoNotes, army.val, rulesMap).notes # result.notes

\* C7: getAllArmyCompNotes returns exactly the notes that getUnitCompNotes
\* returns for at least one unit of the army, each once.
C7_SummaryIsUnion ==
  (AllCalled /\ ~result.threw) =>
    /\ Range(result.notes) = UNION {Range(UnitNotes(i)) : i \in DOMAIN army.val}
    /\ NoDuplicates(result.notes)

\* two units of the army carry the same note, and one of them another
C7_Witness ==
  /\ AllCalled
  /\ ~result.threw
  /\ Len(result.notes) = 2
  /\ \E i, j \in DOMAIN army.val :
       i # j /\ Range(UnitNotes(i)) \cap Range(UnitNotes(j)) # {}

\* C8: every entry of the mapping getArmyCompNotes returns has notes and a
\* rendered fragment that are not empty, and its notes are those of a unit
\* of the army: a unit without notes has no entry.
C8_NoEntryForEmptyUnit ==
  (ArmyCalled /\ ~result.threw) =>
    \A k \in DOMAIN result.map :
      /\ Len(result.map[k].compNotes) > 0
      /\ Len(result.map[k].html) > 0
      /\ \E i \in DOMAIN army.val : UnitNotes(i) = result.map[k].compNotes

\* an army of a unit without notes and a unit with notes: one entry
C8_Witness ==
  /\ ArmyCalled
  /\ ~result.threw
  /\ \E i, j \in DOMAIN army.val : Len(UnitNotes(i)) = 0 /\ Len(UnitNotes(j)) > 0
  /\ Cardinality(DOMAIN result.map) = 1

HasId(unit) == unit.kind = "object" /\ "id" \in DOMAIN unit.val

\* the key of the i-th unit: its id if it has one, else its index from 0
IdOrIndex(i) ==
  IF HasId(army.val[i]) THEN ToPropertyKey(army.val[i].val.id)
  ELSE NumToString(i - 1)

\* C9: for every unit of the army with notes, getArmyCompNotes maps the
\* unit's id, or its index when it has no id, to the unit's notes and to
\* the fragment generateCompNotesHTML renders of them.
C9_EntryUnderIdOrIndex ==
  (ArmyCalled /\ ~result.threw) =>
    \A i \in DOMAIN army.val :
      Len(UnitNotes(i)) > 0 =>
        /\ IdOrIndex(i) \in DOMAIN result.map
        /\ result.map[IdOrIndex(i)].compNotes = UnitNotes(i)
        /\ result.map[IdOrIndex(i)].html =
             generateCompNotesHTML(Arr(UnitNotes(i)))

\* the units that carry an id carry pairwise distinct ids
DistinctIds ==
  \A i, j \in DOMAIN army.val :
    (i # j /\ HasId(army.val[i]) /\ HasId(army.val[j])) =>
      army.val[i].val.id # army.val[j].val.id

\* C10: when the ids in the army are pairwise distinct, the mapping has as
\* many keys as the army has units with notes.
C10_OneKeyPerUnitWithNotes ==
  (ArmyCalled /\ ~result.threw /\ DistinctIds) =>
    Cardinality(DOMAIN result.map)
      = Cardinality({i \in DOMAIN army.val : Len(UnitNotes(i)) > 0})

-----------------------------------------------------------------------------
(* Properties of generateCompNotesHTML and addCompNotesToPrint *)

GenerateCalled == called.fn = "generateCompNotesHTML"

\* the argument is an array with at least one note
NotesGiven == IsArray(called.arg) /\ Len(called.arg.val) > 0

\* C11: generateCompNotesHTML returns the empty string for an empty array
\* and for null and undefined, and a non-empty string for every non-empty
\* array of notes.
C11_EmptyForEmptyOrAbsent ==
  GenerateCalled =>
    /\ ~result.threw
    /\ Nullish(called.arg) => result.html = <<>>
    /\ (IsArray(called.arg) /\ Len(called.arg.val) = 0) => result.html = <<>>
    /\ NotesGiven => Len(result.html) > 0

\* the call on the empty array
C11_Witness ==
  /\ GenerateCalled
  /\ IsArray(called.arg)
  /\ Len(called.arg.val) = 0
  /\ result.html = <<>>

\* the text sub occurs in the text s
Contains(s, sub) ==
  \E i \in 0..(Len(s) - Len(sub)) : SubSeq(s, i + 1, i + Len(sub)) = sub

HeadingLabel == <<"C", "o", "m", "p", " ", "N", "o", "t", "e", "s">>

\* the notes in the order given, a comma and a space between two of them
RECURSIVE CommaSpaced(_)
CommaSpaced(notes) ==
  IF Len(notes) = 0 THEN <<>>
  ELSE IF Len(notes) = 1 THEN notes[1].val
  ELSE CommaSpaced(SubSeq(notes, 1, Len(notes) - 1))
         \o <<",", " ">> \o notes[Len(notes)].val

\* C12: for a non-empty array of notes the fragment holds the heading label
\* Comp Notes and all the notes joined with ", " in the order given.
C12_HeadingAndNotesInOrder ==
  (GenerateCalled /\ NotesGiven) =>
    /\ Contains(result.html, HeadingLabel)
    /\ Contains(result.html, <<"<", "p", ">">> \o CommaSpaced(called.arg.val)
                               \o <<"<", "/", "p", ">">>)

\* two different notes, the second of them before the first in sort order
C12_Witness ==
  /\ GenerateCalled
  /\ NotesGiven
  /\ called.arg.val = <<NoteN, NoteM>>
  /\ Contains(result.html, <<"N", ",", " ", "M">>)

PrintCalled == called.fn = "addCompNotesToPrint"

\* C13: addCompNotesToPrint(unit, d) is generateCompNotesHTML of
\* getUnitCompNotes(unit, d): the empty string exactly when the unit has no
\* note, and otherwise a fragment that holds every note of the unit.
C13_PrintIsFormatOfUnitNotes ==
  PrintCalled =>
    LET compNotes == getUnitCompNotes(TheUnit, rulesMap)
    IN /\ result.threw = compNotes.threw
       /\ ~compNotes.threw =>
            /\ result.html = generateCompNotesHTML(Arr(compNotes.notes))
            /\ (result.html = <<>>) <=> (compNotes.notes = <<>>)
            /\ \A i \in DOMAIN compNotes.notes :
                 Contains(result.html, compNotes.notes[i].val)

\* a unit with two notes
C13_Witness ==
  /\ PrintCalled
  /\ ~result.threw
  /\ Len(getUnitCompNotes(TheUnit, rulesMap).notes) = 2
  /\ result.html # <<>>

-----------------------------------------------------------------------------
(* Robustness of getUnitCompNotes *)

\* C14: getUnitCompNotes raises no exception for any unit record, whatever
\* the shape of its field values, and returns a result.
C14_NeverRaises ==
  (UnitCalled /\ TheUnit.kind = "object") => ~result.threw

\* C15: given a value that is no array, getArmyCompNotes returns an empty
\* mapping and getAllArmyCompNotes an empty array, without an exception.
C15_EmptyForNonArray ==
  ~IsArray(army) =>
    /\ called.fn = "getArmyCompNotes" =>
         (~result.threw /\ DOMAIN result.map = {})
    /\ called.fn = "getAllArmyCompNotes" =>
         (~result.threw /\ result.notes = <<>>)

\* getAllArmyCompNotes called on a plain object
C15_Witness ==
  /\ called.fn = "getAllArmyCompNotes"
  /\ army.kind = "object"
  /\ result = NoNotes

\* the kinds of the values inside a value
RECURSIVE Kinds(_)
Kinds(v) ==
  CASE v.kind = "array" ->
         {"array"} \cup UNION {Kinds(v.val[i]) : i \in DOMAIN v.val}
    [] v.kind = "object" ->
         {"object"} \cup UNION {Kinds(v.val[p]) : p \in DOMAIN v.val}
    [] OTHER -> {v.kind}

\* a unit record of objects, arrays, flags and texts in which no text has a
\* character: every item in it resolves to an empty or an absent name
Nameless(unit) ==
  /\ unit.kind = "object"
  /\ Kinds(unit) \subseteq {"object", "array", "string", "boolean"}
  /\ Texts(unit) \subseteq {<<>>}

\* C16: an item that resolves to an empty or absent name contributes no
\* note, in every field and whatever keys the dictionary holds, and raises
\* no exception.
C16_NamelessContributesNothing ==
  (UnitCalled /\ Nameless(TheUnit)) => result = NoNotes

\* the part of C16 that holds: outside the field mounts a nameless item
\* contributes nothing and raises nothing
C16_NamelessOutsideMounts ==
  (UnitCalled /\ Nameless(TheUnit) /\ Get(TheUnit, "mounts") = Undef)
    => result = NoNotes

-----------------------------------------------------------------------------
(* Name resolution *)

\* the unit's field name is a name-bearing object that resolves to a text
NameIsObject(unit) ==
  /\ unit.kind = "object"
  /\ Get(unit, "name").kind = "object"
  /\ extractName(Get(unit, "name")).kind = "string"

\* C17: a unit whose field name is a name-bearing object yields what the
\* same unit yields with that object's name as plain text in its place.
C17_NameObjectAsItsText ==
  (UnitCalled /\ NameIsObject(TheUnit)) =>
    result = getUnitCompNotes(
               WithProp(TheUnit, "name", extractName(Get(TheUnit, "name"))),
               rulesMap)

ExtractCalled == called.fn = "extractName"

\* the name properties in the order of their priority
NamePriority ==
  <<"name_en", "name_cn", "name_de", "name_es", "name_fr", "name_it", "name">>

\* a text with at least one character
NonEmptyText(v) == v.kind = "string" /\ Len(v.val) > 0

\* an object whose name properties, where it has them, are texts
NameBearing(item) ==
  /\ item.kind = "object"
  /\ \A i \in DOMAIN NamePriority :
       Get(item, NamePriority[i]).kind \in {"undefined", "string"}

\* the places in the priority order whose property is populated
PopulatedAt(item) ==
  {i \in DOMAIN NamePriority : NonEmptyText(Get(item, NamePriority[i]))}

\* the first populated name property, null when there is none
FirstPopulated(item) ==
  IF PopulatedAt(item) = {} THEN Null
  ELSE Get(item, NamePriority[CHOOSE i \in PopulatedAt(item) :
                                \A j \in PopulatedAt(item) : i <= j])

\* C18: extractName returns a plain text unchanged, null for an absent or
\* empty item, and for a name-bearing object the first populated property
\* in the order name_en, name_cn, name_de, name_es, name_fr, name_it, name.
C18_FirstPopulatedName ==
  ExtractCalled =>
    /\ NonEmptyText(called.arg) => result = called.arg
    /\ (Nullish(called.arg) \/ called.arg = Str(<<>>)) => result = Null
    /\ NameBearing(called.arg) => result = FirstPopulated(called.arg)

\* an object with a plain name and a language-tagged name of lower rank
\* than name_en: the tagged one is returned
C18_Witness ==
  /\ ExtractCalled
  /\ NameBearing(called.arg)
  /\ Get(called.arg, "name") = Str(<<"a">>)
  /\ Get(called.arg, "name_it") = Str(<<"b">>)
  /\ result = Str(<<"b">>)

\* C19: every dictionary lookup uses the canonical key of the name, so a
\* name and its canonical form (lower-cased, without curly braces, without
\* surrounding whitespace) resolve to the same entry in every field.
C19_LookupByCanonicalKey ==
  UnitCalled =>
    \A f \in Fields : \A n \in Names :
      TheUnit = Obj(f :> SimpleValue(f, n)) =>
        result = getUnitCompNotes(Obj(f :> SimpleValue(f, CanonicalKey(n))),
                                  rulesMap)

\* the part of C19 that holds: names with a canonical key that is not
\* empty, whose curly braces do not touch whitespace at either end
C19_BracesInsideText ==
  UnitCalled =>
    \A f \in Fields : \A n \in Names :
      (/\ TheUnit = Obj(f :> SimpleValue(f, n))
       /\ CanonicalKey(n) # <<>>
       /\ trim(replaceBraces(n)) = replaceBraces(trim(n))) =>
        result = getUnitCompNotes(Obj(f :> SimpleValue(f, CanonicalKey(n))),
                                  rulesMap)

\* the fields whose elements are plain texts or objects with a name
TextOrObjectFields ==
  {"specialRules", "weapons", "magicItems", "options", "armor"}

\* an object with the one property name, a text
NamedOnly(e) ==
  e.kind = "object" /\ DOMAIN e.val = {"name"} /\ e.val.name.kind = "string"

\* the unit with the i-th element of its array field f replaced by e
WithElement(unit, f, i, e) ==
  WithProp(unit, f, Arr(ReplaceAt(unit.val[f].val, i, e)))

\* the other form of an element: {name: "X"} for "X" and "X" for {name: "X"}
OtherForm(e) == IF e.kind = "string" THEN Obj([name |-> e]) ELSE e.val.name

\* C20: in specialRules, weapons, magicItems, options and armor, replacing
\* an element "X" by {name: "X"}, or {name: "X"} by "X", leaves the result of
\* getUnitCompNotes unchanged.
C20_TextAndObjectAlike ==
  (UnitCalled /\ TheUnit.kind = "object") =>
    \A f \in TextOrObjectFields \cap DOMAIN TheUnit.val :
      IsArray(TheUnit.val[f]) =>
        \A i \in DOMAIN TheUnit.val[f].val :
          LET e == TheUnit.val[f].val[i]
          IN (e.kind = "string" \/ NamedOnly(e)) =>
               getUnitCompNotes(WithElement(TheUnit, f, i, OtherForm(e)),
                                rulesMap) = result

\* an array of two elements, a text and an object with a name, both with
\* a note
C20_Witness ==
  /\ UnitCalled
  /\ TheUnit.kind = "object"
  /\ ~result.threw
  /\ Len(result.notes) = 2
  /\ \E f \in TextOrObjectFields \cap DOMAIN TheUnit.val :
       /\ IsArray(TheUnit.val[f])
       /\ Len(TheUnit.val[f].val) = 2
       /\ TheUnit.val[f].val[1].kind = "string"
       /\ NamedOnly(TheUnit.val[f].val[2])

-----------------------------------------------------------------------------
(* The fields of getUnitCompNotes one by one *)

\* the note of the dictionary entry for the name t, as a set
NoteOf(t, map) ==
  IF HasCompNote(Lookup(map, CanonicalKey(t)))
  THEN {Get(Lookup(map, CanonicalKey(t)), "compNote")}
  ELSE {}

\* an equipment entry that is a plain text or an object with a text in name
TextOrNamed(e) ==
  \/ e.kind = "string"
  \/ e.kind = "object" /\ Get(e, "name").kind = "string"

\* the text of such an entry
EntryText(e) == IF e.kind = "string" THEN e.val ELSE Get(e, "name").val

\* C21: an equipment entry given as a plain text, or as an object with a
\* field name, contributes the note of the dictionary entry for that name.
C21_EquipmentByTextOrName ==
  (UnitCalled /\ ~result.threw /\ IsArray(Get(TheUnit, "equipment"))) =>
    \A i \in DOMAIN Get(TheUnit, "equipment").val :
      LET e == Get(TheUnit, "equipment").val[i]
      IN TextOrNamed(e) =>
           NoteOf(EntryText(e), rulesMap) \subseteq Range(result.notes)

-----------------------------------------------------------------------------
(* Calls one after the other *)

-----------------------------------------------------------------------------
(* The order of the notes *)

\* one command entry: its name segments, then its own magic.selected
RECURSIVE forEachCommandEntry(_, _, _)
forEachCommandEntry(acc, elems, map) ==
  IF acc.threw \/ elems = <<>> THEN acc
  ELSE forEachCommandEntry(
         commandMagic(commandName(acc, Head(elems), map), Head(elems), map),
         Tail(elems), map)

\* the field command visited entry by entry
commandByEntry(acc, unit, map) ==
  IF acc.threw THEN acc
  ELSE IF Truthy(Get(unit, "command")) /\ IsArray(Get(unit, "command"))
       THEN forEachCommandEntry(acc, Get(unit, "command").val, map)
  ELSE acc

\* the visit of one field
Visit(f, acc, unit, map) ==
  CASE f = "name" -> checkName(acc, unit, map)
    [] f = "mount" -> checkMount(acc, unit, map)
    [] f = "specialRules" -> checkSpecialRules(acc, unit, map)
    [] f = "weapons" -> checkWeapons(acc, unit, map)
    [] f = "equipment" -> checkEquipment(acc, unit, map)
    [] f = "magicItems" -> checkMagicItems(acc, unit, map)
    [] f = "items" -> checkItems(acc, unit, map)
    [] f = "armor" -> checkArmor(acc, unit, map)
    [] f = "options" -> checkOptions(acc, unit, map)
    [] f = "mounts" -> checkMounts(acc, unit, map)
    [] f = "command names" -> 
         IF acc.threw THEN acc
         ELSE IF Truthy(Get(unit, "command")) /\ IsArray(Get(unit, "command"))
              THEN forEachCommandName(acc, Get(unit, "command").val, map)
         ELSE acc
    [] f = "command magic" ->
         IF acc.threw THEN acc
         ELSE IF Truthy(Get(unit, "command")) /\ IsArray(Get(unit, "command"))
              THEN forEachCommandMagic(acc, Get(unit, "command").val, map)
         ELSE acc
    [] f = "command by entry" -> commandByEntry(acc, unit, map)

\* the fields visited one after the other in the order given
RECURSIVE VisitAll(_, _, _, _)
VisitAll(order, acc, unit, map) ==
  IF order = <<>> THEN acc
  ELSE VisitAll(Tail(order), Visit(Head(order), acc, unit, map), unit, map)

EmptySet == [threw |-> FALSE, notes |-> <<>>]

\* the order in which the description of the algorithm lists the fields
ListedOrder ==
  <<"name", "mount", "specialRules", "weapons", "magicItems", "options",
    "equipment", "items", "armor", "mounts", "command by entry">>

\* equipment before magicItems, options after armor, and command in two
\* passes: the names of all entries, then the magic.selected of all entries
VisitedOrder ==
  <<"name", "mount", "specialRules", "weapons", "equipment", "magicItems",
    "items", "armor", "options", "mounts", "command names", "command magic">>

\* C24 as stated: the notes are in the order of first insertion with the
\* fields visited as listed: name, mount, specialRules, weapons, magicItems,
\* options, equipment, items, armor, mounts, command entry by entry.
C24_ListedFieldOrder ==
  UnitCalled => result = VisitAll(ListedOrder, EmptySet, TheUnit, rulesMap)

\* C24 amended: the notes are in the order of first insertion with the
\* fields visited in the order name, mount, specialRules, weapons,
\* equipment, magicItems, items, armor, options, mounts, the names of all
\* command entries, the magic.selected of all command entries.
C24_VisitedFieldOrder ==
  UnitCalled => result = VisitAll(VisitedOrder, EmptySet, TheUnit, rulesMap)

\* a unit with two notes that the listed order would return the other way
C24_Witness ==
  /\ UnitCalled
  /\ ~result.threw
  /\ Len(result.notes) = 2
  /\ ~VisitAll(ListedOrder, EmptySet, TheUnit, rulesMap).threw
  /\ VisitAll(ListedOrder, EmptySet, TheUnit, rulesMap).notes
       = <<result.notes[2], result.notes[1]>>

-----------------------------------------------------------------------------
(* equipment, weapons, magicItems, options, command *)

\* an equipment entry of the expected shape: an object whose name_en, if
\* it has one, is a text
EntryShaped(e) ==
  e.kind = "object" /\ Get(e, "name_en").kind \in {"undefined", "string"}

\* addCompNote applied to every trimmed comma segment of the name_en of
\* every active entry
RECURSIVE EquipmentByAddCompNote(_, _, _)
EquipmentByAddCompNote(acc, elems, map) ==
  IF elems = <<>> THEN acc
  ELSE LET e == Head(elems)
           next == IF NotActive(e) \/ Get(e, "name_en").kind # "string" THEN acc
                   ELSE forEachSegment(acc, split(Get(e, "name_en").val), map)
       IN EquipmentByAddCompNote(next, Tail(elems), map)

\* the unit has the one field equipment, an array of entries of that shape
EquipmentOnly(unit) ==
  /\ unit.kind = "object"
  /\ DOMAIN unit.val = {"equipment"}
  /\ IsArray(unit.val.equipment)
  /\ \A i \in DOMAIN unit.val.equipment.val :
       EntryShaped(unit.val.equipment.val[i])

\* C25: the equipment branch contributes exactly the notes that addCompNote
\* contributes for each trimmed comma segment of the name of each active
\* entry, also for names with curly braces or surrounding whitespace.
C25_EquipmentAsAddCompNote ==
  (UnitCalled /\ EquipmentOnly(TheUnit)) =>
    result = EquipmentByAddCompNote(EmptySet, TheUnit.val.equipment.val, rulesMap)

\* the part of C25 that holds: names without curly braces
C25_EquipmentWithoutBraces ==
  (/\ UnitCalled
   /\ EquipmentOnly(TheUnit)
   /\ \A t \in Texts(TheUnit) : replaceBraces(t) = t) =>
    result = EquipmentByAddCompNote(EmptySet, TheUnit.val.equipment.val, rulesMap)

\* addCompNote applied once to the whole resolved name of every element
RECURSIVE WholeNames(_, _, _)
WholeNames(acc, elems, map) ==
  IF elems = <<>> THEN acc
  ELSE WholeNames(
         IF Truthy(extractName(Head(elems)))
         THEN addCompNote(acc, extractName(Head(elems)), map)
         ELSE acc,
         Tail(elems), map)

\* the unit has the one field f, an array
OnlyArray(unit, f) ==
  unit.kind = "object" /\ DOMAIN unit.val = {f} /\ IsArray(unit.val[f])

\* C26: the elements of weapons, magicItems and options are not split at
\* commas: each contributes what one lookup of its whole resolved name
\* contributes, and nothing for its comma segments taken separately.
C26_NoSplitOutsideRules ==
  UnitCalled =>
    \A f \in NamedArrayFields :
      OnlyArray(TheUnit, f) =>
        result = WholeNames(EmptySet, TheUnit.val[f].val, rulesMap)

\* an element "a,b" or "b,a" alone: its segments have notes in the
\* dictionary and none of them is in the result
C26_Witness ==
  /\ UnitCalled
  /\ ~result.threw
  /\ \E f \in NamedArrayFields :
       /\ OnlyArray(TheUnit, f)
       /\ Len(TheUnit.val[f].val) = 1
       /\ TheUnit.val[f].val[1].kind = "string"
       /\ \E i \in DOMAIN TheUnit.val[f].val[1].val :
            TheUnit.val[f].val[1].val[i] = ","
       /\ \A seg \in Range(split(TheUnit.val[f].val[1].val)) :
            /\ NoteOf(seg, rulesMap) # {}
            /\ NoteOf(seg, rulesMap) \cap Range(result.notes) = {}

\* the notes addCompNote finds for the trimmed comma segments of the
\* resolved name of a command entry
NameNotes(e, map) ==
  IF extractName(e).kind = "string"
  THEN UNION {Range(addCompNote(EmptySet, Str(trim(seg)), map).notes) :
                seg \in Range(split(extractName(e).val))}
  ELSE {}

\* the notes of the elements of the nested magic.selected of a command
\* entry, none for an entry without such a sequence
MagicNotes(e, map) ==
  LET selected == Get(Get(e, "magic"), "selected")
  IN IF IsArray(selected)
     THEN UNION {Range(WholeNames(EmptySet, <<selected.val[i]>>, map).notes) :
                   i \in DOMAIN selected.val}
     ELSE {}

\* what one command entry contributes
CommandEntryNotes(e, map) ==
  IF NotActive(e) THEN {} ELSE NameNotes(e, map) \cup MagicNotes(e, map)

\* C27: every active command entry contributes the notes of the trimmed
\* comma segments of its resolved name and of the elements of its nested
\* magic.selected; without magic.selected it contributes through its name
\* alone.
C27_CommandNamesAndMagic ==
  (UnitCalled /\ ~result.threw /\ OnlyArray(TheUnit, "command")) =>
    Range(result.notes) =
      UNION {CommandEntryNotes(TheUnit.val.command.val[i], rulesMap) :
               i \in DOMAIN TheUnit.val.command.val}

\* two active entries: one whose note comes from its magic.selected alone,
\* one without magic whose note comes from its name
C27_Witness ==
  /\ UnitCalled
  /\ ~result.threw
  /\ OnlyArray(TheUnit, "command")
  /\ Len(result.notes) = 2
  /\ \E i, j \in DOMAIN TheUnit.val.command.val :
       LET e == TheUnit.val.command.val[i]
           g == TheUnit.val.command.val[j]
       IN /\ ~NotActive(e) /\ ~NotActive(g)
          /\ NameNotes(e, rulesMap) = {}
          /\ MagicNotes(e, rulesMap) # {}
          /\ Get(g, "magic") = Undef
          /\ NameNotes(g, rulesMap) # {}

-----------------------------------------------------------------------------
(* The two implementations of getUnitCompNotes *)

SimpleCalled == called.fn = "getUnitCompNotesSimple"

\* a plain text, or an object with the one property name
PlainOrNamed(e) ==
  e.kind = "string" \/ (e.kind = "object" /\ DOMAIN e.val = {"name"})

ArrayOfPlainOrNamed(v) ==
  IsArray(v) /\ \A i \in DOMAIN v.val : PlainOrNamed(v.val[i])

\* the unit records of the shapes both implementations handle
BothHandle(unit) ==
  /\ unit.kind = "object"
  /\ DOMAIN unit.val \subseteq
       {"name", "mount", "specialRules", "weapons", "magicItems", "options", "armor"}
  /\ \A f \in DOMAIN unit.val \cap {"name", "mount"} : unit.val[f].kind = "string"
  /\ \A f \in DOMAIN unit.val
               \cap {"specialRules", "weapons", "magicItems", "options"} :
       ArrayOfPlainOrNamed(unit.val[f])
  /\ "armor" \in DOMAIN unit.val =>
       (unit.val.armor.kind = "string" \/ ArrayOfPlainOrNamed(unit.val.armor))
  /\ \A t \in Texts(unit) : \A i \in DOMAIN t : t[i] \notin {",", "{", "}"}

\* C28: on the unit records of the shapes both handle, the simple and the
\* richer implementation of getUnitCompNotes return the same sequence.
C28_ImplementationsAgree ==
  /\ (SimpleCalled /\ BothHandle(called.arg)) =>
       result = getUnitCompNotes(called.arg, rulesMap)
  /\ (UnitCalled /\ BothHandle(called.arg)) =>
       result = getUnitCompNotesSimple(called.arg, rulesMap)

\* a text of specialRules that is whitespace alone: the richer implementation
\* drops the empty segment, the simple one looks up the empty key
BlankSpecialRule(unit) ==
  /\ "specialRules" \in DOMAIN unit.val
  /\ \E i \in DOMAIN unit.val.specialRules.val :
       LET e == unit.val.specialRules.val[i]
           t == IF e.kind = "string" THEN e ELSE e.val.name
       IN t.kind = "string" /\ t.val # <<>> /\ trim(t.val) = <<>>

\* the two implementations agree on every such unit without a blank text
\* in specialRules
C28_AgreeExceptBlankSpecialRule ==
  /\ (SimpleCalled /\ BothHandle(called.arg) /\ ~BlankSpecialRule(called.arg)) =>
       result = getUnitCompNotes(called.arg, rulesMap)
  /\ (UnitCalled /\ BothHandle(called.arg) /\ ~BlankSpecialRule(called.arg)) =>
       result = getUnitCompNotesSimple(called.arg, rulesMap)

-----------------------------------------------------------------------------
(* SyncButton: handlePush and handlePull with pushLists and pullLists of    *)
(* utils/firebase.js.  handlers holds the calls of the two handlers that   *)
(* are suspended at an await, each with the remote call it waits for.      *)

\* the uid of the anonymous user, and the answers to prompt()
Uids == {<<"s">>}

PromptAnswers == {Null, Str(<<>>)} \cup {Str(id) : id \in SyncIds}

Suspended(fn, awaiting, syncId, lists) ==
  [fn |-> fn, awaiting |-> awaiting, syncId |-> syncId, lists |-> lists]

\* the button is rendered with disabled={status !== "idle"}
Enabled == status = "idle"

\* the call runs to its first await: in getOrCreateSyncId when no sync code
\* is stored, in pushLists at setDoc otherwise
HandlePush ==
  /\ Enabled
  /\ status' = "saving"
  /\ LET syncId == getItem(localStorage, "owb.syncId")
     IN handlers' = Append(handlers,
          IF Truthy(syncId)
          THEN Suspended("handlePush", "setDoc", syncId, Get(state, "lists"))
          ELSE Suspended("handlePush", "signInAnonymously", Undef, Get(state, "lists")))
  /\ UNCHANGED <<handlerVars, firestore, localStorage, state, loaded>>

\* signInAnonymously resolved: the uid is stored and setDoc is called
SignInResolved(i) ==
  /\ handlers[i].awaiting = "signInAnonymously"
  /\ \E uid \in Uids :
       /\ localStorage' = setItem(localStorage, "owb.syncId", Str(uid))
       /\ handlers' = [handlers EXCEPT ![i].awaiting = "setDoc",
                                       ![i].syncId = Str(uid)]
  /\ UNCHANGED <<handlerVars, status, firestore, state, loaded>>

\* the awaited remote call rejected: the rejection leaves pushLists or
\* pullLists and then the handler, whose remaining statements are not run
Rejected(i) ==
  /\ handlers' = RemoveAt(handlers, i)
  /\ UNCHANGED <<handlerVars, status, firestore, localStorage, state, loaded>>

SignInRejected(i) ==
  /\ handlers[i].awaiting = "signInAnonymously"
  /\ Rejected(i)

\* setDoc resolved: the document is written, handlePush alerts and calls
\* setStatus("idle")
SetDocResolved(i) ==
  /\ handlers[i].awaiting = "setDoc"
  /\ firestore' = [firestore EXCEPT ![handlers[i].syncId.val] =
                     Obj([lists |-> handlers[i].lists])]
  /\ status' = "idle"
  /\ handlers' = RemoveAt(handlers, i)
  /\ UNCHANGED <<handlerVars, localStorage, state, loaded>>

SetDocRejected(i) ==
  /\ handlers[i].awaiting = "setDoc"
  /\ Rejected(i)

\* prompt() answered: nothing on no code, else the code is stored and the call
\* runs to the await of getDoc in pullLists
HandlePull(code) ==
  /\ Enabled
  /\ IF ~Truthy(code)
     THEN UNCHANGED <<status, handlers, localStorage>>
     ELSE /\ localStorage' = setItem(localStorage, "owb.syncId", code)
          /\ status' = "loading"
          /\ handlers' = Append(handlers,
               Suspended("handlePull", "getDoc", code, Undef))
  /\ UNCHANGED <<handlerVars, firestore, state, loaded>>

\* getDoc resolved: the lists of the document, when there is one, are stored
\* and dispatched (the store's subscriber saves the new state), then
\* setStatus("idle")
GetDocResolved(i) ==
  /\ handlers[i].awaiting = "getDoc"
  /\ LET snap == firestore[handlers[i].syncId.val]
         remoteLists == IF snap.kind = "undefined" THEN Null ELSE Get(snap, "lists")
         next == WithProp(state, "lists", remoteLists)
     IN IF Truthy(remoteLists)
        THEN /\ state' = next
             /\ localStorage' =
                  saveState(setItem(localStorage, "owb.lists", stringify(remoteLists)),
                            next)
        ELSE UNCHANGED <<state, localStorage>>
  /\ status' = "idle"
  /\ handlers' = RemoveAt(handlers, i)
  /\ UNCHANGED <<handlerVars, firestore, loaded>>

GetDocRejected(i) ==
  /\ handlers[i].awaiting = "getDoc"
  /\ Rejected(i)

\* a remote call awaited by a handler settles
Settled ==
  \E i \in DOMAIN handlers :
    \/ SignInResolved(i)
    \/ SignInRejected(i)
    \/ SetDocResolved(i)
    \/ SetDocRejected(i)
    \/ GetDocResolved(i)
    \/ GetDocRejected(i)

\* the component mounted with some lists in the store, with or without a
\* sync code stored and a document saved earlier
InitSync ==
  /\ rulesMap = DictPlain
  /\ army = Arr(<<>>)
  /\ called = NotCalled
  /\ result = Undef
  /\ status = "idle"
  /\ handlers = <<>>
  /\ firestore \in {NoDocuments,
                    [NoDocuments EXCEPT ![<<"t">>] = Obj([lists |-> Arr(<<ListA>>)])]}
  /\ \E syncId \in {Null, Str(<<"t">>)} :
       localStorage = [EmptyStorage EXCEPT !["owb.syncId"] = syncId]
  /\ \E lists \in ListsPool, settings \in SettingsPool :
       state = configureStore(Obj([lists |-> lists]), settings)
  /\ loaded = NotLoaded

NextSync ==
  \/ HandlePush
  \/ \E code \in PromptAnswers : HandlePull(code)
  \/ \E i \in DOMAIN handlers : SignInResolved(i)
  \/ \E i \in DOMAIN handlers : SignInRejected(i)
  \/ \E i \in DOMAIN handlers : SetDocResolved(i)
  \/ \E i \in DOMAIN handlers : SetDocRejected(i)
  \/ \E i \in DOMAIN handlers : GetDocResolved(i)
  \/ \E i \in DOMAIN handlers : GetDocRejected(i)

\* a promise of the remote service settles, and the continuation of the
\* handler awaiting it is then run by the event loop
SpecSync == InitSync /\ [][NextSync]_vars /\ WF_vars(Settled)

\* C29: every push or pull that moves status away from "idle" eventually sets
\* it back to "idle", also when the remote call fails, and no two sync
\* operations are ever in flight at once.
C29_StatusReturnsToIdle ==
  /\ [](Len(handlers) <= 1)
  /\ (status # "idle") ~> (status = "idle")

\* no two handlers are suspended at once, and one is only while the buttons
\* are disabled
C29_OneOperationInFlight ==
  /\ Len(handlers) <= 1
  /\ handlers # <<>> => ~Enabled

\* every push or pull whose remote calls all resolve sets status back
C29_IdleUnlessRejected ==
  [][\A i \in DOMAIN handlers :
       (SetDocResolved(i) \/ GetDocResolved(i)) => status' = "idle"]_vars

-----------------------------------------------------------------------------
(* The store and its saved state: store.subscribe(() => saveState(...)),    *)
(* and loadState() at the next start                                       *)

\* a dispatched action sets one slice; the subscriber then saves the state
StoreUpdate(slice, value) ==
  /\ loaded = NotLoaded
  /\ state' = WithProp(state, slice, value)
  /\ localStorage' = saveState(localStorage, state')
  /\ UNCHANGED <<handlerVars, status, handlers, firestore, loaded>>

\* the application is started again: loadState() reads localStorage
LoadState ==
  /\ loaded = NotLoaded
  /\ loaded' = loadState(localStorage)
  /\ UNCHANGED <<handlerVars, status, handlers, firestore, localStorage, state>>

\* configureStore with the preloaded state
ConfigureStore(initialSettings) ==
  /\ loaded # NotLoaded
  /\ state' = configureStore(loaded, initialSettings)
  /\ loaded' = NotLoaded
  /\ UNCHANGED <<handlerVars, status, handlers, firestore, localStorage>>

\* the first start, nothing stored
InitStore ==
  /\ rulesMap = DictPlain
  /\ army = Arr(<<>>)
  /\ called = NotCalled
  /\ result = Undef
  /\ status = "idle"
  /\ handlers = <<>>
  /\ firestore = NoDocuments
  /\ localStorage = EmptyStorage
  /\ \E settings \in SettingsPool :
       state = configureStore(loadState(EmptyStorage), settings)
  /\ loaded = NotLoaded

NextStore ==
  \/ \E lists \in ListsPool : StoreUpdate("lists", lists)
  \/ \E settings \in SettingsPool : StoreUpdate("settings", settings)
  \/ \E a \in ArmyPool \cup {Null} : StoreUpdate("army", a)
  \/ LoadState
  \/ \E settings \in SettingsPool : ConfigureStore(settings)

SpecStore == InitStore /\ [][NextStore]_vars

\* saveState has run in this or an earlier session
Saved == getItem(localStorage, "owb.lists") # Null

\* C30: after any sequence of store updates, loadState on the next start
\* returns lists, settings and army equal to those of the last store state,
\* also when army was set back to null after having been non-null.
C30_LoadStateReturnsLastState ==
  (loaded # NotLoaded /\ Saved) =>
    /\ Get(loaded, "lists") = Get(state, "lists")
    /\ Get(loaded, "settings") = Get(state, "settings")
    /\ Get(loaded, "army") = Get(state, "army")

\* the army of the last state is null while an earlier one is still stored
ArmyCleared ==
  ~Truthy(Get(state, "army")) /\ getItem(localStorage, "owb.army") # Null

\* loadState returns the last state save for an army that was cleared
C30_LastStateUnlessArmyCleared ==
  (loaded # NotLoaded /\ Saved /\ ~ArmyCleared) =>
    /\ Get(loaded, "lists") = Get(state, "lists")
    /\ Get(loaded, "settings") = Get(state, "settings")
    /\ Get(loaded, "army") = Get(state, "army")

====
